---- MODULE Spec2Model ----
(***************************************************************************)
(* The frame builder of webrender (src/src/frame.rs): paint-order          *)
(* collection, composition operations, scene flattening into scroll        *)
(* layers, draw-list groups and render targets, scrolling with hit         *)
(* testing, and the create / build / reset life cycle of a Frame.          *)
(*                                                                         *)
(* f32 lengths are fixed-point numbers: one pixel is Px units, so that     *)
(* fractional sizes and f32::round are representable.  Matrix4 values are  *)
(* restricted to the maps p |-> s*p + t with s in {1,-1} (translations    *)
(* and half-turns about the z axis), a subgroup closed under mul and       *)
(* invert, in which mul is not commutative.                                *)
(***************************************************************************)
EXTENDS Integers, Sequences, FiniteSets, TLC

\* ------------------------------------------------------------------ bounds

\* Units per pixel of the fixed-point lengths.
Px == 2

\* Number of create calls explored in one behaviour.
MaxCreates == 2

\* ----------------------------------------------------------------- Option

None == <<>>

Some(v) == <<v>>

is_some(o) == o # <<>>

is_none(o) == o = <<>>

unwrap(o) == o[1]

\* -------------------------------------------------------------------- maps

EmptyMap == [k \in {} |-> 0]

contains_key(m, k) == k \in DOMAIN m

insert(m, k, v) == [j \in (DOMAIN m) \cup {k} |-> IF j = k THEN v ELSE m[j]]

\* ---------------------------------------------------------------- geometry

Point2D(x, y) == [x |-> x, y |-> y]

Size2D(w, h) == [width |-> w, height |-> h]

Rect(origin, size) == [origin |-> origin, size |-> size]

\* Lengths written in pixels, with an optional half-pixel fraction.
PxPoint(x, y) == Point2D(x * Px, y * Px)

PxSize(w, h) == Size2D(w * Px, h * Px)

PxRect(x, y, w, h) == Rect(PxPoint(x, y), PxSize(w, h))

Point2D_zero == Point2D(0, 0)

Size2D_zero == Size2D(0, 0)

Point2D_add(a, b) == Point2D(a.x + b.x, a.y + b.y)

Point2D_neg(a) == Point2D(-a.x, -a.y)

Rect_translate(r, p) == Rect(Point2D_add(r.origin, p), r.size)

max_x(r) == r.origin.x + r.size.width

max_y(r) == r.origin.y + r.size.height

Min(a, b) == IF a < b THEN a ELSE b

Max(a, b) == IF a > b THEN a ELSE b

Rect_intersects(a, b) ==
    /\ a.origin.x < max_x(b)
    /\ b.origin.x < max_x(a)
    /\ a.origin.y < max_y(b)
    /\ b.origin.y < max_y(a)

\* Option<Rect>: None when the rectangles do not overlap.
Rect_intersection(a, b) ==
    IF ~Rect_intersects(a, b)
    THEN None
    ELSE LET x0 == Max(a.origin.x, b.origin.x)
             y0 == Max(a.origin.y, b.origin.y)
             x1 == Min(max_x(a), max_x(b))
             y1 == Min(max_y(a), max_y(b))
         IN Some(Rect(Point2D(x0, y0), Size2D(x1 - x0, y1 - y0)))

\* A very large finite rect used as an open clip.
MAX_RECT == PxRect(-1000, -1000, 10000, 10000)

\* f32::round: to the nearest whole pixel, halves away from zero.
round(v) ==
    IF v >= 0
    THEN ((2 * v + Px) \div (2 * Px)) * Px
    ELSE -(((2 * (-v) + Px) \div (2 * Px)) * Px)

\* `as i32` / `as u32` of an f32: whole pixels, truncated toward zero.
as_int(v) == IF v >= 0 THEN v \div Px ELSE -((-v) \div Px)

\* ----------------------------------------------------------------- Matrix4

Matrix4(s, tx, ty) == [s |-> s, tx |-> tx, ty |-> ty]

Matrix4_identity == Matrix4(1, 0, 0)

\* a.mul(&b): the map p |-> a(b(p)).
Matrix4_mul(a, b) == Matrix4(a.s * b.s, a.tx + a.s * b.tx, a.ty + a.s * b.ty)

\* m.translate(x, y, 0.0)
Matrix4_translate(m, x, y) == Matrix4_mul(m, Matrix4(1, x, y))

Matrix4_invert(m) == Matrix4(m.s, -(m.s * m.tx), -(m.s * m.ty))

transform_point(m, p) == Point2D(m.s * p.x + m.tx, m.s * p.y + m.ty)

HalfTurn == Matrix4(-1, 0, 0)

\* ---------------------------------------------------------- scroll layer id

ScrollLayerId_Fixed == <<"Fixed">>

Normal(n) == <<"Normal", n>>

fixed_layer == ScrollLayerId_Fixed

\* ------------------------------------------------------------------- scene

DrawListItem(level, id) ==
    [stacking_level |-> level,
     specific |-> [kind |-> "DrawList", id |-> id, bounds |-> Rect(Point2D_zero, Size2D_zero)]]

StackingContextItem(level, id) ==
    [stacking_level |-> level,
     specific |-> [kind |-> "StackingContext", id |-> id, bounds |-> Rect(Point2D_zero, Size2D_zero)]]

IframeItem(level, id, bounds) ==
    [stacking_level |-> level,
     specific |-> [kind |-> "Iframe", id |-> id, bounds |-> bounds]]

StackingLevels ==
    {"BackgroundAndBorders", "BlockBackgroundAndBorders", "PositionedContent",
     "Floats", "Content", "Outlines"}

\* ------------------------------------------------------ paint-order collector

RECURSIVE display_list_items(_, _, _)
\* The items of display lists ids[i..], in display-list order.
display_list_items(scene, ids, i) ==
    IF i > Len(ids)
    THEN <<>>
    ELSE scene.display_list_map[ids[i]].items \o display_list_items(scene, ids, i + 1)

item_z_index(scene, item) ==
    IF item.specific.kind = "StackingContext"
    THEN scene.stacking_context_map[item.specific.id].z_index
    ELSE 0

with_z_order(scene, items) ==
    [i \in 1..Len(items) |-> [item |-> items[i], z_index |-> item_z_index(scene, items[i])]]

RECURSIVE sort_by_z_index_unstable(_)
\* A sort on z_index that places an item before the items of equal z-index.
sort_by_z_index_unstable(s) ==
    IF Len(s) <= 1
    THEN s
    ELSE LET rest == sort_by_z_index_unstable(SubSeq(s, 1, Len(s) - 1))
             last == s[Len(s)]
             k == Cardinality({i \in 1..Len(rest) : rest[i].z_index < last.z_index})
         IN SubSeq(rest, 1, k) \o <<last>> \o SubSeq(rest, k + 1, Len(rest))

RECURSIVE sort_by_z_index(_)
\* Vec::sort_by on z_index: a stable sort.
sort_by_z_index(s) ==
    IF Len(s) <= 1
    THEN s
    ELSE LET rest == sort_by_z_index(SubSeq(s, 1, Len(s) - 1))
             last == s[Len(s)]
             k == Cardinality({i \in 1..Len(rest) : rest[i].z_index <= last.z_index})
         IN SubSeq(rest, 1, k) \o <<last>> \o SubSeq(rest, k + 1, Len(rest))

of_level(items, level) == SelectSeq(items, LAMBDA it : it.stacking_level = level)

strip_z(s) == [i \in 1..Len(s) |-> s[i].item]

\* collect_scene_items with the negative z-index items painted after the
\* block backgrounds and the pipeline's background left out.
collect_scene_items_misordered(kind, item, scene) ==
    LET stacking_context ==
            IF kind = "Pipeline"
            THEN scene.stacking_context_map[item.root_stacking_context_id]
            ELSE item
        items == display_list_items(scene, stacking_context.display_lists, 1)
        positioned_content ==
            sort_by_z_index(with_z_order(scene, of_level(items, "PositionedContent")))
    IN of_level(items, "BackgroundAndBorders")
       \o of_level(items, "BlockBackgroundAndBorders")
       \o strip_z(SelectSeq(positioned_content, LAMBDA e : e.z_index < 0))
       \o of_level(items, "Floats")
       \o of_level(items, "Content")
       \o strip_z(SelectSeq(positioned_content, LAMBDA e : ~(e.z_index < 0)))
       \o of_level(items, "Outlines")

\* kind is "StackingContext" (item is the stacking context) or "Pipeline"
\* (item is the pipeline, whose root stacking context is looked up).
collect_scene_items(kind, item, scene) ==
    LET background ==
            IF kind = "Pipeline" /\ is_some(item.background_draw_list)
            THEN <<DrawListItem("BackgroundAndBorders", unwrap(item.background_draw_list))>>
            ELSE <<>>
        stacking_context ==
            IF kind = "Pipeline"
            THEN scene.stacking_context_map[item.root_stacking_context_id]
            ELSE item
        items == display_list_items(scene, stacking_context.display_lists, 1)
        background_and_borders == background \o of_level(items, "BackgroundAndBorders")
        block_background_and_borders == of_level(items, "BlockBackgroundAndBorders")
        floats == of_level(items, "Floats")
        content == of_level(items, "Content")
        outlines == of_level(items, "Outlines")
        positioned_content ==
            sort_by_z_index(with_z_order(scene, of_level(items, "PositionedContent")))
    IN background_and_borders
       \o strip_z(SelectSeq(positioned_content, LAMBDA e : e.z_index < 0))
       \o block_background_and_borders
       \o floats
       \o content
       \o strip_z(SelectSeq(positioned_content, LAMBDA e : ~(e.z_index < 0)))
       \o outlines

\* ---------------------------------------------------- composition operations

ANGLE_FLOAT_TO_FIXED == 65535

\* Au::from_f32_px of an amount given in hundredths: 60 app units per pixel.
Au_from_f32_px(amount) == (amount * 60) \div 100

needs_composition_operation_for_mix_blend_mode(sc) == sc.mix_blend_mode # "Normal"

CompositionOp_MixBlend(mode) == [op |-> "MixBlend", name |-> mode, arg |-> 0, axis |-> "None"]

CompositionOp_Filter(name, arg, axis) == [op |-> "Filter", name |-> name, arg |-> arg, axis |-> axis]

\* filter_operations with one pass for a blur.
filter_operations_one_pass(filter) ==
    CASE filter.kind = "Blur" ->
            <<CompositionOp_Filter("Blur", filter.arg, "Horizontal")>>
      [] filter.kind = "HueRotate" ->
            <<CompositionOp_Filter("HueRotate", filter.arg * ANGLE_FLOAT_TO_FIXED, "None")>>
      [] OTHER ->
            <<CompositionOp_Filter(filter.kind, Au_from_f32_px(filter.arg), "None")>>

filter_operations(filter) ==
    CASE filter.kind = "Blur" ->
            <<CompositionOp_Filter("Blur", filter.arg, "Horizontal"),
              CompositionOp_Filter("Blur", filter.arg, "Vertical")>>
      [] filter.kind = "HueRotate" ->
            <<CompositionOp_Filter("HueRotate", filter.arg * ANGLE_FLOAT_TO_FIXED, "None")>>
      [] OTHER ->
            <<CompositionOp_Filter(filter.kind, Au_from_f32_px(filter.arg), "None")>>

RECURSIVE filters_operations(_, _)
filters_operations(filters, i) ==
    IF i > Len(filters)
    THEN <<>>
    ELSE filter_operations(filters[i]) \o filters_operations(filters, i + 1)

\* composition_operations with the blend operation after the filters.
composition_operations_blend_last(sc) ==
    filters_operations(sc.filters, 1)
    \o (IF needs_composition_operation_for_mix_blend_mode(sc)
        THEN <<CompositionOp_MixBlend(sc.mix_blend_mode)>>
        ELSE <<>>)

composition_operations(sc) ==
    (IF needs_composition_operation_for_mix_blend_mode(sc)
     THEN <<CompositionOp_MixBlend(sc.mix_blend_mode)>>
     ELSE <<>>)
    \o filters_operations(sc.filters, 1)

\* CompositionOpHelpers (renderer): blend modes read the framebuffer, filters do not.
needs_framebuffer(op) == op.op = "MixBlend"

\* CompositionOpHelpers (renderer): a blur pass inflates the rect on its axis.
\* The rect is a Rect<i32> in whole pixels; the radius is a length.
target_rect(op, r) ==
    IF op.op = "Filter" /\ op.name = "Blur"
    THEN LET m == as_int(op.arg)
         IN IF op.axis = "Horizontal"
            THEN Rect(Point2D(r.origin.x - m, r.origin.y), Size2D(r.size.width + 2 * m, r.size.height))
            ELSE Rect(Point2D(r.origin.x, r.origin.y - m), Size2D(r.size.width, r.size.height + 2 * m))
    ELSE r

\* ------------------------------------------------------------ DrawListGroup

\* batch::MAX_MATRICES_PER_BATCH: the size of the matrix palette of one batch.
MAX_MATRICES_PER_BATCH == 32

DrawListGroup_new(id, scroll_layer_id, render_target_id) ==
    [id |-> id,
     scroll_layer_id |-> scroll_layer_id,
     render_target_id |-> render_target_id,
     draw_list_ids |-> <<>>]

\* can_add without the size test.
can_add_unbounded(group, scroll_layer_id, render_target_id) ==
    /\ scroll_layer_id = group.scroll_layer_id
    /\ render_target_id = group.render_target_id

can_add(group, scroll_layer_id, render_target_id) ==
    LET scroll_ok == scroll_layer_id = group.scroll_layer_id
        target_ok == render_target_id = group.render_target_id
        size_ok == Len(group.draw_list_ids) < MAX_MATRICES_PER_BATCH
    IN scroll_ok /\ target_ok /\ size_ok

DrawListGroup_push(group, draw_list_id) ==
    [group EXCEPT !.draw_list_ids = Append(@, draw_list_id)]

\* ------------------------------------------------------------- RenderTarget
\* The render-target tree is held in an arena (a sequence, in creation
\* order); `children` holds arena positions and `root` is the position of
\* the root target.

RenderTarget_new(id, size) ==
    [id |-> id,
     children |-> <<>>,
     items |-> <<>>,
     child_texture_id |-> None,
     size |-> size]

FrameRenderItem_Clear(info) == [kind |-> "Clear", info |-> info]

FrameRenderItem_CompositeBatch(info) == [kind |-> "CompositeBatch", info |-> info]

FrameRenderItem_DrawListBatch(id) == [kind |-> "DrawListBatch", draw_list_group_id |-> id]

push_clear(target, clear_info) ==
    [target EXCEPT !.items = Append(@, FrameRenderItem_Clear(clear_info))]

\* push_composite that merges a framebuffer-reading operation like any other.
push_composite_merging(target, op, rect, render_target_index) ==
    LET n == Len(target.items)
        need_new_batch ==
            IF n > 0 /\ target.items[n].kind = "CompositeBatch"
            THEN target.items[n].info.operation # op
            ELSE TRUE
        items1 ==
            IF need_new_batch
            THEN Append(target.items,
                        FrameRenderItem_CompositeBatch([operation |-> op, jobs |-> <<>>]))
            ELSE target.items
        job == [rect |-> rect, render_target_index |-> render_target_index]
    IN [target EXCEPT
          !.items = [items1 EXCEPT ![Len(items1)].info.jobs = Append(@, job)]]

push_composite(target, op, rect, render_target_index) ==
    LET n == Len(target.items)
        need_new_batch ==
            \/ needs_framebuffer(op)
            \/ IF n > 0 /\ target.items[n].kind = "CompositeBatch"
               THEN target.items[n].info.operation # op
               ELSE TRUE
        items1 ==
            IF need_new_batch
            THEN Append(target.items,
                        FrameRenderItem_CompositeBatch([operation |-> op, jobs |-> <<>>]))
            ELSE target.items
        job == [rect |-> rect, render_target_index |-> render_target_index]
    IN [target EXCEPT
          !.items = [items1 EXCEPT ![Len(items1)].info.jobs = Append(@, job)]]

\* push_draw_list_group with the item pushed twice.
push_draw_list_group_twice(target, draw_list_group_id) ==
    [target EXCEPT !.items = @ \o <<FrameRenderItem_DrawListBatch(draw_list_group_id),
                                     FrameRenderItem_DrawListBatch(draw_list_group_id)>>]

push_draw_list_group(target, draw_list_group_id) ==
    [target EXCEPT !.items = Append(@, FrameRenderItem_DrawListBatch(draw_list_group_id))]

\* -------------------------------------------------------------------- Layer
\* layer.rs and aabb_tree.rs.  The tree of a layer is a row of nodes, each
\* node_split wide; an item lives in the node that holds its origin.

node_split == 4 * Px

AABBTreeNode_new(rect) ==
    [rect |-> rect,
     items |-> <<>>,
     is_visible |-> FALSE,
     resource_list |-> None,
     compiled_node |-> None]

AABBTree_new(layer_size) ==
    IF layer_size.width > node_split
    THEN <<AABBTreeNode_new(Rect(Point2D_zero, Size2D(node_split, layer_size.height))),
           AABBTreeNode_new(Rect(Point2D(node_split, 0),
                                 Size2D(layer_size.width - node_split, layer_size.height)))>>
    ELSE <<AABBTreeNode_new(Rect(Point2D_zero, layer_size))>>

Layer_new(world_origin, layer_size, viewport_size, transform) ==
    [world_origin |-> world_origin,
     layer_size |-> layer_size,
     viewport_size |-> viewport_size,
     scroll_offset |-> Point2D_zero,
     local_transform |-> transform,
     world_transform |-> transform,
     children |-> <<>>,
     aabb_tree |-> [nodes |-> AABBTree_new(layer_size)]]

add_child(layer, child) == [layer EXCEPT !.children = Append(@, child)]

Layer_insert(layer, rect, draw_list_group_id, draw_list_id, item_index) ==
    LET k == IF Len(layer.aabb_tree.nodes) > 1 /\ rect.origin.x >= node_split THEN 2 ELSE 1
        entry == [rect |-> rect,
                  draw_list_group_id |-> draw_list_group_id,
                  draw_list_id |-> draw_list_id,
                  item_index |-> item_index]
    IN [layer EXCEPT !.aabb_tree.nodes[k].items = Append(@, entry)]

\* Layer::finalize: re-applies the scroll offset kept from the previous frame.
finalize(layer, initial_scroll_offset) ==
    [layer EXCEPT !.scroll_offset = initial_scroll_offset]

\* ------------------------------------------------------------------ flatten
\* The flattener works on a record `f` holding the Frame fields it writes,
\* the resource cache's draw lists, the caller's pipeline_sizes, the
\* FlattenContext's current_draw_list_group, and `panic` ("" while running).

panicked(f) == f.panic # ""

abort(f, msg) == [f EXCEPT !.panic = msg]

\* next_render_target_id without the increment.
Frame_next_render_target_id_stuck(f) == f

Frame_next_render_target_id(f) == [f EXCEPT !.next_render_target_id = @ + 1]

Frame_next_draw_list_group_id(f) == [f EXCEPT !.next_draw_list_group_id = @ + 1]

RECURSIVE insert_draw_list_items(_, _, _, _, _, _)
\* Lines 785-793: every item of the draw list goes into the layer's tree.
insert_draw_list_items(layer, items, i, offset, draw_list_group_id, draw_list_id) ==
    IF i > Len(items)
    THEN layer
    ELSE insert_draw_list_items(
             Layer_insert(layer, Rect_translate(items[i].rect, offset),
                          draw_list_group_id, draw_list_id, i - 1),
             items, i + 1, offset, draw_list_group_id, draw_list_id)

\* The DrawList arm of add_items_to_target.
add_draw_list(f, draw_list_id, info, target, stacking_context_index) ==
    IF ~contains_key(f.draw_lists, draw_list_id)
    THEN abort(f, "get_draw_list_mut: no such draw list")
    ELSE
    LET f1 == [f EXCEPT !.draw_lists[draw_list_id].stacking_context_index =
                            Some(stacking_context_index)]
        target_id == f1.targets[target].id
        needs_new_draw_group ==
            IF is_some(f1.current_draw_list_group)
            THEN ~can_add(unwrap(f1.current_draw_list_group),
                          info.actual_scroll_layer_id, target_id)
            ELSE TRUE
        f2 == IF needs_new_draw_group
              THEN LET flushed ==
                           IF is_some(f1.current_draw_list_group)
                           THEN [f1 EXCEPT !.draw_list_groups =
                                    insert(@, unwrap(f1.current_draw_list_group).id,
                                           unwrap(f1.current_draw_list_group))]
                           ELSE f1
                       draw_list_group_id == flushed.next_draw_list_group_id
                       counted == Frame_next_draw_list_group_id(flushed)
                   IN [counted EXCEPT
                         !.targets[target] = push_draw_list_group(@, draw_list_group_id),
                         !.current_draw_list_group =
                             Some(DrawListGroup_new(draw_list_group_id,
                                                    info.actual_scroll_layer_id,
                                                    target_id))]
              ELSE f1
        group == DrawListGroup_push(unwrap(f2.current_draw_list_group), draw_list_id)
        f3 == [f2 EXCEPT
                 !.current_draw_list_group = Some(group),
                 !.add_log = Append(@, [draw_list_group_id |-> group.id,
                                        draw_list_id |-> draw_list_id,
                                        scroll_layer_id |-> info.actual_scroll_layer_id,
                                        render_target_id |-> target_id,
                                        stacking_context_index |-> stacking_context_index,
                                        group_len |-> Len(group.draw_list_ids)])]
    IN IF ~contains_key(f3.layers, info.actual_scroll_layer_id)
       THEN abort(f3, "unwrap: no layer for actual_scroll_layer_id")
       ELSE [f3 EXCEPT
               !.layers[info.actual_scroll_layer_id] =
                   insert_draw_list_items(@, f3.draw_lists[draw_list_id].items, 1,
                                          info.offset_from_current_layer,
                                          group.id, draw_list_id)]

\* scroll_info with a fixed context left in the scroll layer around it.
scroll_info_fixed_inherits(f, stacking_context, parent_info, local_clip_rect) ==
    LET origin == Point2D_add(parent_info.offset_from_current_layer,
                              stacking_context.bounds.origin)
        local_transform ==
            Matrix4_translate(
                Matrix4_mul(Matrix4_translate(Matrix4_identity, origin.x, origin.y),
                            stacking_context.transform),
                -origin.x, -origin.y)
        transform == Matrix4_mul(Matrix4_mul(parent_info.perspective, parent_info.transform),
                                 local_transform)
        perspective ==
            Matrix4_translate(
                Matrix4_mul(Matrix4_translate(Matrix4_identity, origin.x, origin.y),
                            stacking_context.perspective),
                -origin.x, -origin.y)
        info == [viewport_size |-> parent_info.viewport_size,
                 offset_from_origin |-> Point2D_add(parent_info.offset_from_origin,
                                                    stacking_context.bounds.origin),
                 offset_from_current_layer |-> origin,
                 default_scroll_layer_id |-> parent_info.default_scroll_layer_id,
                 actual_scroll_layer_id |-> parent_info.default_scroll_layer_id,
                 current_clip_rect |-> local_clip_rect,
                 transform |-> transform,
                 perspective |-> perspective]
    IN CASE stacking_context.scroll_policy = "Fixed" ->
              IF f.debug_assertions /\ is_some(stacking_context.scroll_layer_id)
              THEN [f |-> abort(f, "debug_assert: Fixed with a scroll_layer_id"), info |-> info]
              ELSE [f |-> f, info |-> info]
         [] stacking_context.scroll_policy = "Scrollable"
            /\ is_some(stacking_context.scroll_layer_id) ->
              LET scroll_layer_id == unwrap(stacking_context.scroll_layer_id)
                  layer == Layer_new(parent_info.offset_from_origin,
                                     stacking_context.overflow.size,
                                     parent_info.viewport_size,
                                     transform)
                  info1 == [info EXCEPT
                              !.default_scroll_layer_id = scroll_layer_id,
                              !.actual_scroll_layer_id = scroll_layer_id,
                              !.offset_from_current_layer = Point2D_zero,
                              !.transform = Matrix4_identity,
                              !.perspective = Matrix4_identity]
              IN IF f.debug_assertions /\ contains_key(f.layers, scroll_layer_id)
                 THEN [f |-> abort(f, "debug_assert: duplicate scroll layer"), info |-> info]
                 ELSE IF parent_info.actual_scroll_layer_id # scroll_layer_id
                         /\ ~contains_key(f.layers, parent_info.actual_scroll_layer_id)
                 THEN [f |-> abort(f, "unwrap: no layer for the parent's scroll layer"),
                       info |-> info]
                 ELSE LET f1 == IF parent_info.actual_scroll_layer_id # scroll_layer_id
                                THEN [f EXCEPT !.layers[parent_info.actual_scroll_layer_id] =
                                                   add_child(@, scroll_layer_id)]
                                ELSE f
                      IN [f |-> [f1 EXCEPT !.layers = insert(@, scroll_layer_id, layer)],
                          info |-> info1]
         [] OTHER -> [f |-> f, info |-> info]

\* Lines 885-920: the FlattenInfo of a stacking context and its scroll layer.
scroll_info(f, stacking_context, parent_info, local_clip_rect) ==
    LET origin == Point2D_add(parent_info.offset_from_current_layer,
                              stacking_context.bounds.origin)
        local_transform ==
            Matrix4_translate(
                Matrix4_mul(Matrix4_translate(Matrix4_identity, origin.x, origin.y),
                            stacking_context.transform),
                -origin.x, -origin.y)
        transform == Matrix4_mul(Matrix4_mul(parent_info.perspective, parent_info.transform),
                                 local_transform)
        perspective ==
            Matrix4_translate(
                Matrix4_mul(Matrix4_translate(Matrix4_identity, origin.x, origin.y),
                            stacking_context.perspective),
                -origin.x, -origin.y)
        info == [viewport_size |-> parent_info.viewport_size,
                 offset_from_origin |-> Point2D_add(parent_info.offset_from_origin,
                                                    stacking_context.bounds.origin),
                 offset_from_current_layer |-> origin,
                 default_scroll_layer_id |-> parent_info.default_scroll_layer_id,
                 actual_scroll_layer_id |-> parent_info.default_scroll_layer_id,
                 current_clip_rect |-> local_clip_rect,
                 transform |-> transform,
                 perspective |-> perspective]
    IN CASE stacking_context.scroll_policy = "Fixed" ->
              IF f.debug_assertions /\ is_some(stacking_context.scroll_layer_id)
              THEN [f |-> abort(f, "debug_assert: Fixed with a scroll_layer_id"), info |-> info]
              ELSE [f |-> f, info |-> [info EXCEPT !.actual_scroll_layer_id = fixed_layer]]
         [] stacking_context.scroll_policy = "Scrollable"
            /\ is_some(stacking_context.scroll_layer_id) ->
              LET scroll_layer_id == unwrap(stacking_context.scroll_layer_id)
                  layer == Layer_new(parent_info.offset_from_origin,
                                     stacking_context.overflow.size,
                                     parent_info.viewport_size,
                                     transform)
                  info1 == [info EXCEPT
                              !.default_scroll_layer_id = scroll_layer_id,
                              !.actual_scroll_layer_id = scroll_layer_id,
                              !.offset_from_current_layer = Point2D_zero,
                              !.transform = Matrix4_identity,
                              !.perspective = Matrix4_identity]
              IN IF f.debug_assertions /\ contains_key(f.layers, scroll_layer_id)
                 THEN [f |-> abort(f, "debug_assert: duplicate scroll layer"), info |-> info]
                 ELSE IF parent_info.actual_scroll_layer_id # scroll_layer_id
                         /\ ~contains_key(f.layers, parent_info.actual_scroll_layer_id)
                 THEN [f |-> abort(f, "unwrap: no layer for the parent's scroll layer"),
                       info |-> info]
                 ELSE LET f1 == IF parent_info.actual_scroll_layer_id # scroll_layer_id
                                THEN [f EXCEPT !.layers[parent_info.actual_scroll_layer_id] =
                                                   add_child(@, scroll_layer_id)]
                                ELSE f
                      IN [f |-> [f1 EXCEPT !.layers = insert(@, scroll_layer_id, layer)],
                          info |-> info1]
         [] OTHER -> [f |-> f, info |-> info]

RECURSIVE fold_target_rect(_, _, _)
\* Lines 947-950.
fold_target_rect(ops, i, r) ==
    IF i > Len(ops) THEN r ELSE fold_target_rect(ops, i + 1, target_rect(ops[i], r))

RECURSIVE push_composites_reversed(_, _, _, _, _)
\* The composites pushed last operation first.
push_composites_reversed(target, ops, i, rect, render_target_index) ==
    IF i > Len(ops)
    THEN target
    ELSE push_composite(push_composites_reversed(target, ops, i + 1, rect,
                                                 render_target_index),
                        ops[i], rect, render_target_index)

RECURSIVE push_composites(_, _, _, _, _)
\* Lines 961-965.
push_composites(target, ops, i, rect, render_target_index) ==
    IF i > Len(ops)
    THEN target
    ELSE push_composites(push_composite(target, ops[i], rect, render_target_index),
                         ops, i + 1, rect, render_target_index)

ClearZ == [clear_color |-> FALSE, clear_z |-> TRUE, clear_stencil |-> TRUE]

RECURSIVE flatten(_, _, _, _, _, _)
RECURSIVE add_items(_, _, _, _, _, _, _)

\* The FlattenInfo of an iframe with the clip rect and the viewport size of
\* the context around it.
iframe_flatten_info_inherited(info, bounds) ==
    [info EXCEPT
       !.offset_from_origin = Point2D_add(@, bounds.origin),
       !.offset_from_current_layer = Point2D_add(@, bounds.origin)]

\* Lines 819-828: the FlattenInfo an iframe's pipeline is flattened with.
iframe_flatten_info(info, bounds) ==
    [viewport_size |-> bounds.size,
     offset_from_origin |-> Point2D_add(info.offset_from_origin, bounds.origin),
     offset_from_current_layer |-> Point2D_add(info.offset_from_current_layer, bounds.origin),
     default_scroll_layer_id |-> info.default_scroll_layer_id,
     actual_scroll_layer_id |-> info.actual_scroll_layer_id,
     current_clip_rect |-> MAX_RECT,
     transform |-> info.transform,
     perspective |-> info.perspective]

\* add_items_to_target: lines 738-744, then the loop over the items.
add_items_to_target(f, scene, scene_items, info, target) ==
    LET stacking_context_index == Len(f.stacking_context_info)
        f1 == [f EXCEPT !.stacking_context_info =
                            Append(@, [offset_from_layer |-> info.offset_from_current_layer,
                                       local_clip_rect |-> info.current_clip_rect,
                                       transform |-> info.transform,
                                       perspective |-> info.perspective])]
    IN add_items(f1, scene, scene_items, 1, info, target, stacking_context_index)

\* The loop of add_items_to_target from item i on (lines 746-838).
add_items(f, scene, scene_items, i, info, target, stacking_context_index) ==
    IF panicked(f) \/ i > Len(scene_items)
    THEN f
    ELSE
    LET specific == scene_items[i].specific
        f1 == CASE specific.kind = "DrawList" ->
                     add_draw_list(f, specific.id, info, target, stacking_context_index)
                [] specific.kind = "StackingContext" ->
                     IF ~contains_key(scene.stacking_context_map, specific.id)
                     THEN abort(f, "unwrap: no such stacking context")
                     ELSE flatten(f, scene, "StackingContext",
                                  scene.stacking_context_map[specific.id], info, target)
                [] OTHER ->
                     LET f2 == [f EXCEPT !.pipeline_sizes =
                                           insert(@, specific.id, specific.bounds.size)]
                     IN IF contains_key(scene.pipeline_map, specific.id)
                        THEN flatten(f2, scene, "Pipeline", scene.pipeline_map[specific.id],
                                     iframe_flatten_info(info, specific.bounds), target)
                        ELSE f2
    IN add_items(f1, scene, scene_items, i + 1, info, target, stacking_context_index)

\* Lines 922-976: clear, then the items into the target or into a new child.
flatten_items(f, scene, stacking_context, scene_items, info, local_clip_rect, target) ==
    LET f1 == IF stacking_context.establishes_3d_context
                 /\ stacking_context.has_stacking_contexts
              THEN [f EXCEPT !.targets[target] = push_clear(@, ClearZ)]
              ELSE f
        ops == composition_operations(stacking_context)
    IN IF ops = <<>>
       THEN add_items_to_target(f1, scene, scene_items, info, target)
       ELSE
       LET target_size == Size2D(as_int(local_clip_rect.size.width),
                                 as_int(local_clip_rect.size.height))
           target_origin == Point2D(as_int(info.offset_from_origin.x),
                                    as_int(info.offset_from_origin.y))
           unfiltered_target_rect == Rect(target_origin, target_size)
           rect == fold_target_rect(ops, 1, unfiltered_target_rect)
           render_target_index == Len(f1.targets[target].children)
           render_target_id == f1.next_render_target_id
           f2 == Frame_next_render_target_id(f1)
           new_target == Len(f2.targets) + 1
           f3 == [f2 EXCEPT
                    !.targets = Append([@ EXCEPT ![target] =
                                           push_composites(@, ops, 1, rect, render_target_index)],
                                       RenderTarget_new(render_target_id, rect.size))]
           info1 == [info EXCEPT !.offset_from_current_layer = Point2D_zero]
           f4 == add_items_to_target(f3, scene, scene_items, info1, new_target)
       IN IF panicked(f4)
          THEN f4
          ELSE [f4 EXCEPT !.targets[target].children = Append(@, new_target)]

\* flatten without the two early returns: an empty clip becomes an empty
\* rect, and a context without items goes on.
flatten_unpruned(f, scene, kind, item, parent_info, target) ==
    IF panicked(f)
    THEN f
    ELSE
    LET f0 == IF kind = "Pipeline"
              THEN [f EXCEPT !.pipeline_epoch_map = insert(@, item.pipeline_id, item.epoch)]
              ELSE f
    IN IF kind = "Pipeline"
          /\ ~contains_key(scene.stacking_context_map, item.root_stacking_context_id)
       THEN abort(f0, "unwrap: no root stacking context")
       ELSE
       LET stacking_context ==
               IF kind = "Pipeline"
               THEN scene.stacking_context_map[item.root_stacking_context_id]
               ELSE item
           clipped ==
               Rect_intersection(
                   Rect_translate(parent_info.current_clip_rect,
                                  Point2D_neg(stacking_context.bounds.origin)),
                   stacking_context.overflow)
           local_clip_rect ==
               IF is_none(clipped) THEN Rect(Point2D_zero, Size2D_zero) ELSE unwrap(clipped)
           scene_items == collect_scene_items(kind, item, scene)
           si == scroll_info(f0, stacking_context, parent_info, local_clip_rect)
       IN IF panicked(si.f)
          THEN si.f
          ELSE flatten_items(si.f, scene, stacking_context, scene_items,
                             si.info, local_clip_rect, target)

flatten(f, scene, kind, item, parent_info, target) ==
    IF panicked(f)
    THEN f
    ELSE
    LET f0 == IF kind = "Pipeline"
              THEN [f EXCEPT !.pipeline_epoch_map = insert(@, item.pipeline_id, item.epoch)]
              ELSE f
    IN IF kind = "Pipeline"
          /\ ~contains_key(scene.stacking_context_map, item.root_stacking_context_id)
       THEN abort(f0, "unwrap: no root stacking context")
       ELSE
       LET stacking_context ==
               IF kind = "Pipeline"
               THEN scene.stacking_context_map[item.root_stacking_context_id]
               ELSE item
           local_clip_rect ==
               Rect_intersection(
                   Rect_translate(parent_info.current_clip_rect,
                                  Point2D_neg(stacking_context.bounds.origin)),
                   stacking_context.overflow)
       IN IF is_none(local_clip_rect)
          THEN f0
          ELSE
          LET scene_items == collect_scene_items(kind, item, scene)
          IN IF scene_items = <<>>
             THEN f0
             ELSE LET si == scroll_info(f0, stacking_context, parent_info,
                                        unwrap(local_clip_rect))
                  IN IF panicked(si.f)
                     THEN si.f
                     ELSE flatten_items(si.f, scene, stacking_context, scene_items,
                                        si.info, unwrap(local_clip_rect), target)

\* ----------------------------------------------------------- resource cache
\* resource_cache.rs, by its contract: render-target textures are handed out
\* and taken back; freeing a texture that is not allocated is recorded.

allocate_render_target(allocated) ==
    CHOOSE t \in 0..Cardinality(allocated) :
        t \notin allocated /\ \A u \in 0..(t - 1) : u \in allocated

\* rc is [allocated, double_free].
free_render_target(rc, texture_id) ==
    [allocated |-> rc.allocated \ {texture_id},
     double_free |-> rc.double_free \/ texture_id \notin rc.allocated]

\* ------------------------------------------------------ order of the layers
\* HashMap iteration order is arbitrary; the loops over `layers` are
\* independent per layer, so one order stands for all of them.

layer_rank(id) == IF id = fixed_layer THEN -1 ELSE id[2]

RECURSIVE in_order(_)
in_order(ids) ==
    IF ids = {}
    THEN <<>>
    ELSE LET first == CHOOSE a \in ids : \A b \in ids : layer_rank(a) <= layer_rank(b)
         IN <<first>> \o in_order(ids \ {first})

\* -------------------------------------------------------------------- reset

\* RenderTarget::reset without the walk over the children.
RenderTarget_reset_shallow(rc, targets, t) ==
    IF is_some(targets[t].child_texture_id)
    THEN free_render_target(rc, unwrap(targets[t].child_texture_id))
    ELSE rc

RECURSIVE RenderTarget_reset(_, _, _)
RECURSIVE RenderTarget_reset_children(_, _, _, _)

\* RenderTarget::reset on targets[t]: returns the resource cache state.
RenderTarget_reset(rc, targets, t) ==
    LET rc1 == IF is_some(targets[t].child_texture_id)
               THEN free_render_target(rc, unwrap(targets[t].child_texture_id))
               ELSE rc
    IN RenderTarget_reset_children(rc1, targets, targets[t].children, 1)

RenderTarget_reset_children(rc, targets, children, i) ==
    IF i > Len(children)
    THEN rc
    ELSE RenderTarget_reset_children(RenderTarget_reset(rc, targets, children[i]),
                                     targets, children, i + 1)

BatchUpdate_Create(id) == [id |-> id, op |-> "Create"]

BatchUpdate_Destroy(id) == [id |-> id, op |-> "Destroy"]

RECURSIVE Layer_reset(_, _, _)
\* Layer::reset: the vertex buffers of the layer's compiled nodes are destroyed.
Layer_reset(nodes, i, pending) ==
    IF i > Len(nodes)
    THEN pending
    ELSE LET node == nodes[i]
             destroyed ==
                 IF is_some(node.compiled_node)
                    /\ is_some(unwrap(node.compiled_node).vertex_buffer_id)
                 THEN Append(pending,
                             BatchUpdate_Destroy(unwrap(unwrap(node.compiled_node).vertex_buffer_id)))
                 ELSE pending
         IN Layer_reset(nodes, i + 1, destroyed)

RECURSIVE reset_layers(_, _, _, _)
reset_layers(layers, order, i, pending) ==
    IF i > Len(order)
    THEN pending
    ELSE reset_layers(layers, order, i + 1,
                      Layer_reset(layers[order[i]].aabb_tree.nodes, 1, pending))

\* Frame::reset that keeps pipeline_epoch_map and returns zero offsets.
Frame_reset_partial(fr) ==
    [frame |-> [fr EXCEPT
                  !.draw_list_groups = EmptyMap,
                  !.stacking_context_info = <<>>,
                  !.root = None,
                  !.targets = <<>>,
                  !.allocated = {},
                  !.layers = EmptyMap],
     old_layer_offsets |-> [id \in DOMAIN fr.layers |-> Point2D_zero]]

\* Frame::reset on the frame record fr; the returned map is old_layer_offsets.
Frame_reset(fr) ==
    LET rc == [allocated |-> fr.allocated, double_free |-> fr.double_free]
        rc1 == IF is_some(fr.root) THEN RenderTarget_reset(rc, fr.targets, unwrap(fr.root)) ELSE rc
        old_layer_offsets == [id \in DOMAIN fr.layers |-> fr.layers[id].scroll_offset]
    IN [frame |-> [fr EXCEPT
                     !.draw_list_groups = EmptyMap,
                     !.pipeline_epoch_map = EmptyMap,
                     !.stacking_context_info = <<>>,
                     !.root = None,
                     !.targets = <<>>,
                     !.allocated = rc1.allocated,
                     !.double_free = rc1.double_free,
                     !.pending_updates =
                         reset_layers(fr.layers, in_order(DOMAIN fr.layers), 1, @),
                     !.layers = EmptyMap],
        old_layer_offsets |-> old_layer_offsets]

\* ------------------------------------------------------------------- scroll

\* geometry::ray_intersects_rect for the ray through p along the z axis:
\* the lower edges of the rect are inside, the upper edges outside.
ray_intersects_rect(p, rect) ==
    /\ rect.origin.x <= p.x
    /\ p.x < max_x(rect)
    /\ rect.origin.y <= p.y
    /\ p.y < max_y(rect)

RECURSIVE get_scroll_layer(_, _, _, _)
RECURSIVE get_scroll_layer_children(_, _, _, _, _)

get_scroll_layer_children(layers, cursor, children, i, transform) ==
    IF i > Len(children)
    THEN None
    ELSE LET hit == get_scroll_layer(layers, cursor, children[i], transform)
         IN IF is_some(hit)
            THEN hit
            ELSE get_scroll_layer_children(layers, cursor, children, i + 1, transform)

\* get_scroll_layer with the layer's own rect tested before its children.
get_scroll_layer_self_first(layers, cursor, scroll_layer_id, parent_transform) ==
    IF ~contains_key(layers, scroll_layer_id)
    THEN None
    ELSE LET layer == layers[scroll_layer_id]
             transform == Matrix4_mul(parent_transform, layer.local_transform)
             layer_rect == Rect(layer.world_origin, layer.viewport_size)
         IN IF /\ scroll_layer_id # ScrollLayerId_Fixed
               /\ ray_intersects_rect(transform_point(Matrix4_invert(transform), cursor),
                                      layer_rect)
            THEN Some(scroll_layer_id)
            ELSE get_scroll_layer_children(layers, cursor, layer.children, 1, transform)

get_scroll_layer(layers, cursor, scroll_layer_id, parent_transform) ==
    IF ~contains_key(layers, scroll_layer_id)
    THEN None
    ELSE LET layer == layers[scroll_layer_id]
             transform == Matrix4_mul(parent_transform, layer.local_transform)
             child_hit == get_scroll_layer_children(layers, cursor, layer.children, 1, transform)
         IN IF is_some(child_hit)
            THEN child_hit
            ELSE IF scroll_layer_id = ScrollLayerId_Fixed
            THEN None
            ELSE LET inv == Matrix4_invert(transform)
                     p == transform_point(inv, cursor)
                     layer_rect == Rect(layer.world_origin, layer.viewport_size)
                 IN IF ray_intersects_rect(p, layer_rect)
                    THEN Some(scroll_layer_id)
                    ELSE None

\* Lines 635-648 without the lower clamp.
scroll_layer_unclamped(layer, delta) ==
    LET x1 == IF layer.layer_size.width > layer.viewport_size.width
              THEN Min(layer.scroll_offset.x + delta.x, 0)
              ELSE layer.scroll_offset.x
        y1 == IF layer.layer_size.height > layer.viewport_size.height
              THEN Min(layer.scroll_offset.y + delta.y, 0)
              ELSE layer.scroll_offset.y
    IN [layer EXCEPT !.scroll_offset = Point2D(round(x1), round(y1))]

\* Lines 635-648 on the hit layer.
scroll_layer(layer, delta) ==
    LET x1 == IF layer.layer_size.width > layer.viewport_size.width
              THEN Max(Min(layer.scroll_offset.x + delta.x, 0),
                       -layer.layer_size.width + layer.viewport_size.width)
              ELSE layer.scroll_offset.x
        y1 == IF layer.layer_size.height > layer.viewport_size.height
              THEN Max(Min(layer.scroll_offset.y + delta.y, 0),
                       -layer.layer_size.height + layer.viewport_size.height)
              ELSE layer.scroll_offset.y
    IN [layer EXCEPT !.scroll_offset = Point2D(round(x1), round(y1))]

\* The layer scroll(delta, cursor) acts on, if any.
scroll_target(fr, cursor) ==
    IF is_some(fr.root_scroll_layer_id)
    THEN get_scroll_layer(fr.layers, cursor, unwrap(fr.root_scroll_layer_id), Matrix4_identity)
    ELSE None

\* scroll that falls back to the root scroll layer when nothing is hit.
Frame_scroll_fallback(fr, delta, cursor) ==
    LET hit == scroll_target(fr, cursor)
        scroll_layer_id == IF is_some(hit) THEN hit ELSE fr.root_scroll_layer_id
    IN IF is_some(scroll_layer_id) /\ contains_key(fr.layers, unwrap(scroll_layer_id))
       THEN [fr EXCEPT !.layers[unwrap(scroll_layer_id)] = scroll_layer(@, delta)]
       ELSE fr

Frame_scroll(fr, delta, cursor) ==
    LET scroll_layer_id == scroll_target(fr, cursor)
    IN IF is_some(scroll_layer_id)
       THEN [fr EXCEPT !.layers[unwrap(scroll_layer_id)] = scroll_layer(@, delta)]
       ELSE fr

\* ------------------------------------------------------------------- create

\* Lines 720-727 with every layer finalized at the origin.
finalize_layers_at_origin(layers, old_layer_offsets) ==
    [id \in DOMAIN layers |-> finalize(layers[id], Point2D_zero)]

finalize_layers(layers, old_layer_offsets) ==
    [id \in DOMAIN layers |->
        finalize(layers[id],
                 IF contains_key(old_layer_offsets, id)
                 THEN old_layer_offsets[id]
                 ELSE Point2D_zero)]

\* create with the group left open by flatten dropped instead of stored.
create_frame_last_group_dropped(fr, scene, root_pipeline, viewport_size) ==
    LET r == Frame_reset(fr)
        f0 == [r.frame EXCEPT !.add_log = <<>>]
    IN IF ~contains_key(scene.stacking_context_map, root_pipeline.root_stacking_context_id)
       THEN abort(f0, "unwrap: no root stacking context")
       ELSE
       LET root_stacking_context ==
               scene.stacking_context_map[root_pipeline.root_stacking_context_id]
       IN IF is_none(root_stacking_context.scroll_layer_id)
          THEN abort(f0, "root layer must be a scroll layer!")
          ELSE
          LET root_scroll_layer_id == unwrap(root_stacking_context.scroll_layer_id)
              root_target_id == f0.next_render_target_id
              viewport == Size2D(viewport_size.width * Px, viewport_size.height * Px)
              f1 == [Frame_next_render_target_id(f0) EXCEPT
                       !.root_scroll_layer_id = Some(root_scroll_layer_id),
                       !.targets = <<RenderTarget_new(root_target_id, viewport_size)>>,
                       !.layers = insert(@, fixed_layer,
                                         Layer_new(root_stacking_context.overflow.origin,
                                                   root_stacking_context.overflow.size,
                                                   viewport,
                                                   Matrix4_identity)),
                       !.current_draw_list_group = None]
              parent_info ==
                  [viewport_size |-> viewport,
                   offset_from_origin |-> Point2D_zero,
                   offset_from_current_layer |-> Point2D_zero,
                   default_scroll_layer_id |-> root_scroll_layer_id,
                   actual_scroll_layer_id |-> root_scroll_layer_id,
                   current_clip_rect |-> MAX_RECT,
                   transform |-> Matrix4_identity,
                   perspective |-> Matrix4_identity]
              f2 == flatten(f1, scene, "Pipeline", root_pipeline, parent_info, 1)
          IN IF panicked(f2)
             THEN f2
             ELSE LET f3 == IF is_some(f2.current_draw_list_group)
                            THEN [f2 EXCEPT
                                    !.current_draw_list_group = None]
                            ELSE f2
                  IN [f3 EXCEPT
                        !.root = Some(1),
                        !.layers = finalize_layers(@, r.old_layer_offsets)]

\* Lines 660-727, once the root pipeline is found.  viewport_size is a
\* Size2D<u32> in whole pixels.
create_frame(fr, scene, root_pipeline, viewport_size) ==
    LET r == Frame_reset(fr)
        f0 == [r.frame EXCEPT !.add_log = <<>>]
    IN IF ~contains_key(scene.stacking_context_map, root_pipeline.root_stacking_context_id)
       THEN abort(f0, "unwrap: no root stacking context")
       ELSE
       LET root_stacking_context ==
               scene.stacking_context_map[root_pipeline.root_stacking_context_id]
       IN IF is_none(root_stacking_context.scroll_layer_id)
          THEN abort(f0, "root layer must be a scroll layer!")
          ELSE
          LET root_scroll_layer_id == unwrap(root_stacking_context.scroll_layer_id)
              root_target_id == f0.next_render_target_id
              viewport == Size2D(viewport_size.width * Px, viewport_size.height * Px)
              f1 == [Frame_next_render_target_id(f0) EXCEPT
                       !.root_scroll_layer_id = Some(root_scroll_layer_id),
                       !.targets = <<RenderTarget_new(root_target_id, viewport_size)>>,
                       !.layers = insert(@, fixed_layer,
                                         Layer_new(root_stacking_context.overflow.origin,
                                                   root_stacking_context.overflow.size,
                                                   viewport,
                                                   Matrix4_identity)),
                       !.current_draw_list_group = None]
              parent_info ==
                  [viewport_size |-> viewport,
                   offset_from_origin |-> Point2D_zero,
                   offset_from_current_layer |-> Point2D_zero,
                   default_scroll_layer_id |-> root_scroll_layer_id,
                   actual_scroll_layer_id |-> root_scroll_layer_id,
                   current_clip_rect |-> MAX_RECT,
                   transform |-> Matrix4_identity,
                   perspective |-> Matrix4_identity]
              f2 == flatten(f1, scene, "Pipeline", root_pipeline, parent_info, 1)
          IN IF panicked(f2)
             THEN f2
             ELSE LET f3 == IF is_some(f2.current_draw_list_group)
                            THEN [f2 EXCEPT
                                    !.draw_list_groups =
                                        insert(@, unwrap(f2.current_draw_list_group).id,
                                               unwrap(f2.current_draw_list_group)),
                                    !.current_draw_list_group = None]
                            ELSE f2
                  IN [f3 EXCEPT
                        !.root = Some(1),
                        !.layers = finalize_layers(@, r.old_layer_offsets)]

\* create that resets the frame before it looks for the root pipeline.
Frame_create_reset_first(fr, scene, viewport_size) ==
    IF is_some(scene.root_pipeline_id)
       /\ contains_key(scene.pipeline_map, unwrap(scene.root_pipeline_id))
    THEN create_frame(fr, scene, scene.pipeline_map[unwrap(scene.root_pipeline_id)],
                      viewport_size)
    ELSE Frame_reset(fr).frame

Frame_create(fr, scene, viewport_size) ==
    IF is_some(scene.root_pipeline_id)
       /\ contains_key(scene.pipeline_map, unwrap(scene.root_pipeline_id))
    THEN create_frame(fr, scene, scene.pipeline_map[unwrap(scene.root_pipeline_id)],
                      viewport_size)
    ELSE fr

\* -------------------------------------------------------------------- build

\* Layer::cull: a node is visible when it holds items and its rect meets
\* the viewport moved by the scroll offset.
cull_node(layer, node) ==
    [node EXCEPT !.is_visible =
        /\ node.items # <<>>
        /\ Rect_intersects(node.rect,
                           Rect(Point2D_neg(layer.scroll_offset), layer.viewport_size))]

needs_compile(node) == node.is_visible /\ is_none(node.compiled_node)

\* node.build_resource_list: the draw lists the node's items come from.
build_resource_list(layer, node) ==
    IF needs_compile(node)
    THEN [node EXCEPT !.resource_list =
             Some({node.items[i].draw_list_id : i \in 1..Len(node.items)})]
    ELSE node

\* Lines 988-990: every layer is culled.
cull_layers(layers) ==
    [id \in DOMAIN layers |->
        [layers[id] EXCEPT !.aabb_tree.nodes =
            [k \in 1..Len(@) |-> cull_node(layers[id], @[k])]]]

update_resource_lists(layers) ==
    [id \in DOMAIN layers |->
        [layers[id] EXCEPT !.aabb_tree.nodes =
            [k \in 1..Len(@) |-> build_resource_list(layers[id], @[k])]]]

visible_nodes(layers) ==
    {<<id, k>> : id \in DOMAIN layers, k \in 1..2} \cap
    {p \in (DOMAIN layers) \X (1..2) :
        p[2] <= Len(layers[p[1]].aabb_tree.nodes)
        /\ layers[p[1]].aabb_tree.nodes[p[2]].is_visible}

\* update_texture_cache_and_build_raster_jobs: the resource lists the cache is given.
added_resource_lists(layers) ==
    {unwrap(layers[p[1]].aabb_tree.nodes[p[2]].resource_list) : p \in visible_nodes(layers)}

node_before(p, q) ==
    \/ layer_rank(p[1]) < layer_rank(q[1])
    \/ p[1] = q[1] /\ p[2] < q[2]

\* nodes_to_compile with the nodes that are compiled already.
nodes_to_compile_again(layers) == visible_nodes(layers)

nodes_to_compile(layers) ==
    {p \in visible_nodes(layers) : is_none(layers[p[1]].aabb_tree.nodes[p[2]].compiled_node)}

RECURSIVE group_ids_of(_, _)
\* The draw-list groups of a node's items, each once, in item order.
group_ids_of(items, i) ==
    IF i > Len(items)
    THEN <<>>
    ELSE LET rest == group_ids_of(items, i + 1)
             g == items[i].draw_list_group_id
         IN <<g>> \o SelectSeq(rest, LAMBDA h : h # g)

\* node.compile: one batch list per draw-list group, and a vertex buffer.
compile(node, vertex_buffer_id) ==
    LET groups == group_ids_of(node.items, 1)
        batch_list ==
            [j \in 1..Len(groups) |->
                [draw_list_group_id |-> groups[j],
                 batches |-> <<[clip_rects |-> <<node.rect>>,
                                first_instance |-> 0,
                                instance_count |->
                                    Cardinality({i \in 1..Len(node.items) :
                                                    node.items[i].draw_list_group_id = groups[j]})]>>]]
    IN [node EXCEPT !.compiled_node =
           Some([batch_list |-> batch_list,
                 vertex_buffer |-> Some([id |-> vertex_buffer_id]),
                 vertex_buffer_id |-> None])]

compile_visible_nodes(layers, next_id) ==
    LET todo == nodes_to_compile(layers)
    IN [id \in DOMAIN layers |->
           [layers[id] EXCEPT !.aabb_tree.nodes =
               [k \in 1..Len(@) |->
                   IF <<id, k>> \in todo
                   THEN compile(@[k], next_id + Cardinality({p \in todo : node_before(p, <<id, k>>)}))
                   ELSE @[k]]]]

has_vertex_buffer(node) ==
    /\ node.is_visible
    /\ is_some(node.compiled_node)
    /\ is_some(unwrap(node.compiled_node).vertex_buffer)

\* update_batch_cache on one node with the buffer left in the node.
take_vertex_buffer_kept(layer, node) ==
    IF has_vertex_buffer(node)
    THEN [node EXCEPT !.compiled_node =
             Some([unwrap(@) EXCEPT
                     !.vertex_buffer_id = Some(unwrap(unwrap(node.compiled_node).vertex_buffer).id)])]
    ELSE node

\* update_batch_cache on one node: the buffer is taken and its id kept.
take_vertex_buffer(layer, node) ==
    IF has_vertex_buffer(node)
    THEN [node EXCEPT !.compiled_node =
             Some([unwrap(@) EXCEPT
                     !.vertex_buffer = None,
                     !.vertex_buffer_id = Some(unwrap(unwrap(node.compiled_node).vertex_buffer).id)])]
    ELSE node

RECURSIVE created_updates(_, _, _)
\* update_batch_cache: the layers once every node's buffer is taken.
update_batch_cache(layers) ==
    [id \in DOMAIN layers |->
        [layers[id] EXCEPT !.aabb_tree.nodes =
            [k \in 1..Len(@) |-> take_vertex_buffer(layers[id], @[k])]]]

\* The BatchUpdate::Create entries update_batch_cache pushes, in node order.
created_updates(layers, order, i) ==
    IF i > Len(order)
    THEN <<>>
    ELSE LET nodes == layers[order[i]].aabb_tree.nodes
             of_node(k) ==
                 IF k <= Len(nodes) /\ has_vertex_buffer(nodes[k])
                 THEN <<BatchUpdate_Create(unwrap(unwrap(nodes[k].compiled_node).vertex_buffer).id)>>
                 ELSE <<>>
         IN of_node(1) \o of_node(2) \o created_updates(layers, order, i + 1)

RECURSIVE update_layer_transform(_, _, _)
RECURSIVE update_layer_transform_children(_, _, _, _)

update_layer_transform(layers, layer_id, parent_transform) ==
    IF ~contains_key(layers, layer_id)
    THEN layers
    ELSE LET layer == layers[layer_id]
             world_transform ==
                 Matrix4_translate(
                     Matrix4_translate(Matrix4_mul(parent_transform, layer.local_transform),
                                       layer.world_origin.x, layer.world_origin.y),
                     layer.scroll_offset.x, layer.scroll_offset.y)
             layers1 == [layers EXCEPT ![layer_id].world_transform = world_transform]
         IN update_layer_transform_children(layers1, layer.children, 1, world_transform)

update_layer_transform_children(layers, children, i, transform) ==
    IF i > Len(children)
    THEN layers
    ELSE update_layer_transform_children(
             update_layer_transform(layers, children[i], transform),
             children, i + 1, transform)

update_layer_transforms(layers, root_scroll_layer_id) ==
    IF is_some(root_scroll_layer_id)
    THEN update_layer_transform(layers, unwrap(root_scroll_layer_id), Matrix4_identity)
    ELSE layers

\* Lines 137-206: the Batch command of one DrawListBatch item.
batch_command(fr, draw_list_group_id) ==
    LET draw_list_group == fr.draw_list_groups[draw_list_group_id]
        layer == fr.layers[draw_list_group.scroll_layer_id]
        n == Len(draw_list_group.draw_list_ids)
        context(i) ==
            fr.stacking_context_info[
                unwrap(fr.draw_lists[draw_list_group.draw_list_ids[i]].stacking_context_index) + 1]
        scroll_clip_rect == Rect(Point2D_neg(layer.scroll_offset), layer.viewport_size)
        clip(r) == LET c == Rect_intersection(r, scroll_clip_rect)
                   IN IF is_some(c) THEN unwrap(c) ELSE Rect(Point2D_zero, Size2D_zero)
        calls_of(node) ==
            IF node.is_visible
            THEN LET compiled_node == unwrap(node.compiled_node)
                     found == SelectSeq(compiled_node.batch_list,
                                        LAMBDA b : b.draw_list_group_id = draw_list_group_id)
                 IN IF found = <<>>
                    THEN <<>>
                    ELSE [j \in 1..Len(found[1].batches) |->
                            [clip_rects |->
                                 [c \in 1..Len(found[1].batches[j].clip_rects) |->
                                     clip(found[1].batches[j].clip_rects[c])],
                             vertex_buffer_id |-> unwrap(compiled_node.vertex_buffer_id),
                             first_instance |-> found[1].batches[j].first_instance,
                             instance_count |-> found[1].batches[j].instance_count]]
            ELSE <<>>
        nodes == layer.aabb_tree.nodes
    IN [kind |-> "Batch",
        matrix_palette |->
            [i \in 1..n |-> Matrix4_mul(layer.world_transform, context(i).transform)],
        offset_palette |-> [i \in 1..n |-> context(i).offset_from_layer],
        draw_calls |-> calls_of(nodes[1]) \o (IF Len(nodes) > 1 THEN calls_of(nodes[2]) ELSE <<>>)]

\* Whether collecting this DrawListBatch item aborts (an index or unwrap fails).
batch_command_panics(fr, draw_list_group_id) ==
    \/ ~contains_key(fr.draw_list_groups, draw_list_group_id)
    \/ LET draw_list_group == fr.draw_list_groups[draw_list_group_id]
       IN \/ fr.debug_assertions /\ Len(draw_list_group.draw_list_ids) > MAX_MATRICES_PER_BATCH
          \/ ~contains_key(fr.layers, draw_list_group.scroll_layer_id)
          \/ \E i \in 1..Len(draw_list_group.draw_list_ids) :
                LET d == draw_list_group.draw_list_ids[i]
                IN \/ ~contains_key(fr.draw_lists, d)
                   \/ is_none(fr.draw_lists[d].stacking_context_index)
                   \/ unwrap(fr.draw_lists[d].stacking_context_index)
                          >= Len(fr.stacking_context_info)
          \/ \E k \in 1..Len(fr.layers[draw_list_group.scroll_layer_id].aabb_tree.nodes) :
                LET node == fr.layers[draw_list_group.scroll_layer_id].aabb_tree.nodes[k]
                IN node.is_visible
                   /\ (is_none(node.compiled_node)
                       \/ is_none(unwrap(node.compiled_node).vertex_buffer_id))

\* command_of with every composite batch stripped of its jobs.
command_of_without_jobs(fr, item) ==
    CASE item.kind = "Clear" -> [kind |-> "Clear", info |-> item.info]
      [] item.kind = "CompositeBatch" ->
            [kind |-> "CompositeBatch", info |-> [item.info EXCEPT !.jobs = <<>>]]
      [] OTHER -> batch_command(fr, item.draw_list_group_id)

command_of(fr, item) ==
    CASE item.kind = "Clear" -> [kind |-> "Clear", info |-> item.info]
      [] item.kind = "CompositeBatch" -> [kind |-> "CompositeBatch", info |-> item.info]
      [] OTHER -> batch_command(fr, item.draw_list_group_id)

\* The logical size of the offscreen atlas of a target's children.
texture_size == 2048

RECURSIVE RenderTarget_collect(_, _)
RECURSIVE collect_children(_, _, _, _, _)

\* RenderTarget::collect_and_sort_visible_batches on fr.targets[t]: the
\* frame record after it and the DrawLayer it returns.
RenderTarget_collect(fr, t) ==
    LET target == fr.targets[t]
        bad == \E i \in 1..Len(target.items) :
                   target.items[i].kind = "DrawListBatch"
                   /\ batch_command_panics(fr, target.items[i].draw_list_group_id)
    IN IF panicked(fr)
       THEN [frame |-> fr, layer |-> None]
       ELSE IF bad
       THEN [frame |-> abort(fr, "collect: index or unwrap failed"), layer |-> None]
       ELSE
       LET commands == [i \in 1..Len(target.items) |-> command_of(fr, target.items[i])]
       IN IF target.children = <<>>
          THEN [frame |-> fr,
                layer |-> Some([draw_target_info |-> None,
                                child_layers |-> <<>>,
                                commands |-> commands,
                                layer_size |-> target.size,
                                layer_origin |-> Point2D_zero])]
          ELSE
          LET rc == [allocated |-> fr.allocated, double_free |-> fr.double_free]
              rc1 == IF is_some(target.child_texture_id)
                     THEN free_render_target(rc, unwrap(target.child_texture_id))
                     ELSE rc
              texture_id == allocate_render_target(rc1.allocated)
              fr1 == [fr EXCEPT
                        !.allocated = rc1.allocated \cup {texture_id},
                        !.double_free = rc1.double_free,
                        !.targets[t].child_texture_id = Some(texture_id)]
              done == collect_children(fr1, target.children, 1, <<>>, 0)
          IN IF panicked(done.frame)
             THEN [frame |-> done.frame, layer |-> None]
             ELSE [frame |-> done.frame,
                   layer |-> Some([draw_target_info |->
                                       Some([size |-> Size2D(texture_size, texture_size),
                                             texture_id |-> texture_id]),
                                   child_layers |-> done.child_layers,
                                   commands |-> commands,
                                   layer_size |-> target.size,
                                   layer_origin |-> Point2D_zero])]

\* Lines 235-245; the page packs the children in a row, x being the next free column.
collect_children(fr, children, i, child_layers, x) ==
    IF i > Len(children) \/ panicked(fr)
    THEN [frame |-> fr, child_layers |-> child_layers]
    ELSE LET got == RenderTarget_collect(fr, children[i])
         IN IF panicked(got.frame)
            THEN [frame |-> got.frame, child_layers |-> child_layers]
            ELSE LET child_layer == unwrap(got.layer)
                 IN IF x + child_layer.layer_size.width > texture_size
                    THEN [frame |-> abort(got.frame, "unwrap: the page is full"),
                          child_layers |-> child_layers]
                    ELSE collect_children(
                             got.frame, children, i + 1,
                             Append(child_layers,
                                    [child_layer EXCEPT !.layer_origin = Point2D(x, 0)]),
                             x + child_layer.layer_size.width)

\* build without the walk over the render targets: the frame it returns has
\* an empty root layer.
Frame_build_uncollected(fr) ==
    LET culled == cull_layers(fr.layers)
        listed == update_resource_lists(culled)
        compiled == compile_visible_nodes(listed, fr.next_vertex_buffer_id)
        created == created_updates(compiled, in_order(DOMAIN compiled), 1)
        cached == update_batch_cache(compiled)
        transformed == update_layer_transforms(cached, fr.root_scroll_layer_id)
        fr1 == [fr EXCEPT
                  !.layers = transformed,
                  !.resource_lists = @ \cup added_resource_lists(listed),
                  !.next_vertex_buffer_id = @ + Cardinality(nodes_to_compile(listed)),
                  !.pending_updates = @ \o created]
    IN [fr1 EXCEPT
          !.renderer_frame = Some([pipeline_epoch_map |-> fr1.pipeline_epoch_map,
                                   root |-> [draw_target_info |-> None,
                                             child_layers |-> <<>>,
                                             commands |-> <<>>,
                                             layer_size |-> Size2D_zero,
                                             layer_origin |-> Point2D_zero]])]

\* Lines 1011-1015: the render targets are collected from the root down and
\* the RendererFrame is made of what they give.
collect_frame(fr) ==
    LET got == IF is_some(fr.root)
               THEN RenderTarget_collect(fr, unwrap(fr.root))
               ELSE [frame |-> fr,
                     layer |-> Some([draw_target_info |-> None,
                                     child_layers |-> <<>>,
                                     commands |-> <<>>,
                                     layer_size |-> Size2D_zero,
                                     layer_origin |-> Point2D_zero])]
    IN IF panicked(got.frame)
       THEN got.frame
       ELSE [got.frame EXCEPT
               !.renderer_frame = Some([pipeline_epoch_map |-> fr.pipeline_epoch_map,
                                        root |-> unwrap(got.layer)])]

\* Frame::build; renderer_frame is the RendererFrame it returns.
Frame_build(fr) ==
    LET culled == cull_layers(fr.layers)
        listed == update_resource_lists(culled)
        compiled == compile_visible_nodes(listed, fr.next_vertex_buffer_id)
        created == created_updates(compiled, in_order(DOMAIN compiled), 1)
        cached == update_batch_cache(compiled)
        transformed == update_layer_transforms(cached, fr.root_scroll_layer_id)
        fr1 == [fr EXCEPT
                  !.layers = transformed,
                  !.resource_lists = @ \cup added_resource_lists(listed),
                  !.next_vertex_buffer_id = @ + Cardinality(nodes_to_compile(listed)),
                  !.pending_updates = @ \o created]
    IN collect_frame(fr1)

\* The phases of build, in the order of lines 986-1012.
BuildPhases ==
    <<"cull", "resource", "intake", "raster", "compile", "batch_cache", "transforms",
      "collect">>

\* phase_scopes with every scope of update_resource_lists over all the layers.
phase_scopes_all_layers(phase, layers) ==
    CASE phase = "resource" ->
            [i \in 1..Len(in_order(DOMAIN layers)) |-> in_order(DOMAIN layers)]
      [] phase = "compile" -> <<in_order(DOMAIN layers)>>
      [] OTHER -> <<>>

\* The scopes a parallel phase opens on the thread pool, each the layers whose
\* nodes it hands out: update_resource_lists opens one scope per layer (lines
\* 1053-1064), compile_visible_nodes one scope for all layers (lines 1099-1113).
phase_scopes(phase, layers) ==
    CASE phase = "resource" ->
            [i \in 1..Len(in_order(DOMAIN layers)) |-> <<in_order(DOMAIN layers)[i]>>]
      [] phase = "compile" -> <<in_order(DOMAIN layers)>>
      [] OTHER -> <<>>

RECURSIVE scope_tasks(_, _, _)
\* The nodes a scope gives to tasks, in the order of its loops: every node of
\* layers ids[i..] that is visible and not compiled (lines 1057 and 1103).
scope_tasks(layers, ids, i) ==
    IF i > Len(ids)
    THEN <<>>
    ELSE SelectSeq([k \in 1..Len(layers[ids[i]].aabb_tree.nodes) |-> <<ids[i], k>>],
                   LAMBDA p : needs_compile(layers[p[1]].aabb_tree.nodes[p[2]]))
         \o scope_tasks(layers, ids, i + 1)

\* What a task does to the frame: node.build_resource_list or node.compile on
\* the node it was given (lines 1058-1060 and 1104-1109).
run_task(fr, phase, p) ==
    IF phase = "resource"
    THEN [fr EXCEPT !.layers[p[1]].aabb_tree.nodes[p[2]] =
                        build_resource_list(fr.layers[p[1]], @)]
    ELSE [fr EXCEPT !.layers[p[1]].aabb_tree.nodes[p[2]] =
                        compile(@, fr.next_vertex_buffer_id),
                    !.next_vertex_buffer_id = @ + 1]

\* What a phase without tasks does to the frame on the orchestrator.
run_phase(fr, phase) ==
    CASE phase = "cull" -> [fr EXCEPT !.layers = cull_layers(@)]
      [] phase = "intake" ->
            [fr EXCEPT !.resource_lists = @ \cup added_resource_lists(fr.layers)]
      [] phase = "batch_cache" ->
            [fr EXCEPT
               !.pending_updates =
                   @ \o created_updates(fr.layers, in_order(DOMAIN fr.layers), 1),
               !.layers = update_batch_cache(@)]
      [] phase = "transforms" ->
            [fr EXCEPT !.layers = update_layer_transforms(@, fr.root_scroll_layer_id)]
      [] phase = "collect" -> collect_frame(fr)
      [] OTHER -> fr

\* The pool as the phase after `phase` starts, idle after the last phase.
next_phase(phase, layers) ==
    LET n == CHOOSE i \in 1..Len(BuildPhases) : BuildPhases[i] = phase
    IN IF n = Len(BuildPhases)
       THEN [phase |-> "idle", scopes |-> <<>>, pending |-> {}, given |-> <<>>]
       ELSE [phase |-> BuildPhases[n + 1],
             scopes |-> phase_scopes(BuildPhases[n + 1], layers),
             pending |-> {},
             given |-> <<>>]

\* ------------------------------------------------------------------- scenes

StackingContext_default ==
    [bounds |-> PxRect(0, 0, 4, 3),
     overflow |-> PxRect(0, 0, 4, 3),
     scroll_policy |-> "Scrollable",
     scroll_layer_id |-> None,
     z_index |-> 0,
     display_lists |-> <<>>,
     mix_blend_mode |-> "Normal",
     filters |-> <<>>,
     establishes_3d_context |-> FALSE,
     has_stacking_contexts |-> FALSE,
     transform |-> Matrix4_identity,
     perspective |-> Matrix4_identity]

ScenePipeline(pipeline_id, epoch, root_stacking_context_id, background_draw_list) ==
    [pipeline_id |-> pipeline_id,
     epoch |-> epoch,
     root_stacking_context_id |-> root_stacking_context_id,
     background_draw_list |-> background_draw_list]

\* A scene of one pipeline whose root stacking context is scroll layer L0
\* with the given overflow size and one draw list.
RootOnlyScene(overflow_size, draw_list_id) ==
    [root_pipeline_id |-> Some(1),
     pipeline_map |-> (1 :> ScenePipeline(1, 1, 1, None)),
     stacking_context_map |->
         (1 :> [StackingContext_default EXCEPT
                  !.overflow = Rect(Point2D_zero, overflow_size),
                  !.scroll_layer_id = Some(Normal(0)),
                  !.display_lists = <<1>>]),
     display_list_map |-> (1 :> [items |-> <<DrawListItem("Content", draw_list_id)>>])]

\* Layer as large as the viewport.
SceneSingle == RootOnlyScene(PxSize(4, 3), 1)

\* Layer wider than the viewport by two pixels.
SceneWide == RootOnlyScene(PxSize(6, 3), 2)

\* Layer wider than the viewport by a fraction of a pixel short of three.
SceneWideFraction == RootOnlyScene(Size2D(7 * Px - 1, 3 * Px), 2)

\* Layer larger than the viewport on both axes.
SceneLarge == RootOnlyScene(PxSize(6, 5), 1)

\* A scroll layer L1 inside the root layer L0.
SceneNested ==
    [root_pipeline_id |-> Some(1),
     pipeline_map |-> (1 :> ScenePipeline(1, 2, 1, None)),
     stacking_context_map |->
         (1 :> [StackingContext_default EXCEPT
                  !.scroll_layer_id = Some(Normal(0)),
                  !.display_lists = <<1>>])
         @@ (2 :> [StackingContext_default EXCEPT
                     !.overflow = PxRect(0, 0, 5, 3),
                     !.scroll_layer_id = Some(Normal(1)),
                     !.display_lists = <<2>>]),
     display_list_map |->
         (1 :> [items |-> <<DrawListItem("Content", 1), StackingContextItem("Content", 2)>>])
         @@ (2 :> [items |-> <<DrawListItem("Content", 3)>>])]

\* A fixed context, a context with an opacity filter and, inside it, a
\* context with a blend mode and a blur.
SceneEffects ==
    [root_pipeline_id |-> Some(1),
     pipeline_map |-> (1 :> ScenePipeline(1, 3, 1, Some(8))),
     stacking_context_map |->
         (1 :> [StackingContext_default EXCEPT
                  !.overflow = PxRect(0, 0, 6, 3),
                  !.scroll_layer_id = Some(Normal(0)),
                  !.display_lists = <<1>>])
         @@ (2 :> [StackingContext_default EXCEPT
                     !.scroll_policy = "Fixed",
                     !.display_lists = <<2>>])
         @@ (3 :> [StackingContext_default EXCEPT
                     !.bounds = PxRect(1, 1, 2, 2),
                     !.overflow = PxRect(0, 0, 2, 2),
                     !.filters = <<[kind |-> "Opacity", arg |-> 50]>>,
                     !.display_lists = <<3>>])
         @@ (4 :> [StackingContext_default EXCEPT
                     !.bounds = PxRect(0, 0, 1, 1),
                     !.overflow = PxRect(0, 0, 1, 1),
                     !.mix_blend_mode = "Multiply",
                     !.filters = <<[kind |-> "Blur", arg |-> Px]>>,
                     !.display_lists = <<4>>]),
     display_list_map |->
         (1 :> [items |-> <<DrawListItem("BackgroundAndBorders", 1),
                            StackingContextItem("PositionedContent", 2),
                            StackingContextItem("PositionedContent", 3),
                            DrawListItem("Outlines", 2)>>])
         @@ (2 :> [items |-> <<DrawListItem("Content", 5)>>])
         @@ (3 :> [items |-> <<DrawListItem("Content", 6), StackingContextItem("Content", 4)>>])
         @@ (4 :> [items |-> <<DrawListItem("Content", 7)>>])]

\* More draw lists in one context than a group may hold.
SceneMany ==
    [root_pipeline_id |-> Some(1),
     pipeline_map |-> (1 :> ScenePipeline(1, 4, 1, None)),
     stacking_context_map |->
         (1 :> [StackingContext_default EXCEPT
                  !.scroll_layer_id = Some(Normal(0)),
                  !.display_lists = <<1>>]),
     display_list_map |->
         (1 :> [items |-> [i \in 1..(MAX_MATRICES_PER_BATCH + 2) |-> DrawListItem("Content", i)]])]

\* The root stacking context has no items: nothing is flattened.
SceneEmptyRoot ==
    [root_pipeline_id |-> Some(1),
     pipeline_map |-> (1 :> ScenePipeline(1, 5, 1, None)),
     stacking_context_map |->
         (1 :> [StackingContext_default EXCEPT !.scroll_layer_id = Some(Normal(0))]),
     display_list_map |-> EmptyMap]

\* The root stacking context has an empty overflow: it is pruned.
ScenePrunedRoot == RootOnlyScene(Size2D_zero, 1)

\* No root pipeline id.
SceneNoRoot ==
    [root_pipeline_id |-> None,
     pipeline_map |-> (1 :> ScenePipeline(1, 6, 1, None)),
     stacking_context_map |->
         (1 :> [StackingContext_default EXCEPT
                  !.scroll_layer_id = Some(Normal(0)),
                  !.display_lists = <<1>>]),
     display_list_map |-> (1 :> [items |-> <<DrawListItem("Content", 1)>>])]

\* Contexts under every kind of parent: a fixed context (2) holding a context
\* without a scroll layer (3), a scroll layer (4, with a fixed context 9
\* inside) and an iframe (pipeline 2);
\* a context without a scroll layer (5) holding another one (6) and an
\* iframe (pipeline 3).
SceneFixed ==
    [root_pipeline_id |-> Some(1),
     pipeline_map |->
         (1 :> ScenePipeline(1, 7, 1, None))
         @@ (2 :> ScenePipeline(2, 8, 7, None))
         @@ (3 :> ScenePipeline(3, 9, 8, None)),
     stacking_context_map |->
         (1 :> [StackingContext_default EXCEPT
                  !.overflow = PxRect(0, 0, 6, 3),
                  !.scroll_layer_id = Some(Normal(0)),
                  !.display_lists = <<1>>])
         @@ (2 :> [StackingContext_default EXCEPT
                     !.bounds = PxRect(1, 1, 3, 2),
                     !.overflow = PxRect(0, 0, 3, 2),
                     !.scroll_policy = "Fixed",
                     !.display_lists = <<2>>])
         @@ (3 :> [StackingContext_default EXCEPT !.display_lists = <<3>>])
         @@ (4 :> [StackingContext_default EXCEPT
                     !.overflow = PxRect(0, 0, 3, 2),
                     !.scroll_layer_id = Some(Normal(2)),
                     !.display_lists = <<4>>])
         @@ (5 :> [StackingContext_default EXCEPT !.display_lists = <<5>>])
         @@ (6 :> [StackingContext_default EXCEPT !.display_lists = <<6>>])
         @@ (7 :> [StackingContext_default EXCEPT !.display_lists = <<7>>])
         @@ (8 :> [StackingContext_default EXCEPT !.display_lists = <<8>>])
         @@ (9 :> [StackingContext_default EXCEPT
                     !.scroll_policy = "Fixed",
                     !.display_lists = <<9>>]),
     display_list_map |->
         (1 :> [items |-> <<DrawListItem("Content", 1),
                            StackingContextItem("PositionedContent", 2),
                            StackingContextItem("Content", 5)>>])
         @@ (2 :> [items |-> <<DrawListItem("Content", 3),
                               StackingContextItem("Content", 3),
                               StackingContextItem("Content", 4),
                               IframeItem("Content", 2, PxRect(0, 0, 2, 2))>>])
         @@ (3 :> [items |-> <<DrawListItem("Content", 4)>>])
         @@ (4 :> [items |-> <<DrawListItem("Content", 5),
                               StackingContextItem("Content", 9)>>])
         @@ (9 :> [items |-> <<DrawListItem("Content", 11)>>])
         @@ (5 :> [items |-> <<DrawListItem("Content", 6),
                               StackingContextItem("Content", 6),
                               IframeItem("Content", 3, PxRect(1, 0, 2, 2))>>])
         @@ (6 :> [items |-> <<DrawListItem("Content", 7)>>])
         @@ (7 :> [items |-> <<DrawListItem("Content", 9)>>])
         @@ (8 :> [items |-> <<DrawListItem("Content", 10)>>])]

\* A context (2) outside its parent's clip, holding a scroll layer, a
\* filter, a fixed context (4) and an iframe (pipeline 2); a context (3)
\* with a scroll layer and a filter but no items; and two contexts (9, 10)
\* with the same filter that are flattened.
ScenePruned ==
    [root_pipeline_id |-> Some(1),
     pipeline_map |->
         (1 :> ScenePipeline(1, 10, 1, None))
         @@ (2 :> ScenePipeline(2, 11, 5, None)),
     stacking_context_map |->
         (1 :> [StackingContext_default EXCEPT
                  !.scroll_layer_id = Some(Normal(0)),
                  !.display_lists = <<1>>])
         @@ (2 :> [StackingContext_default EXCEPT
                     !.bounds = PxRect(5, 0, 2, 2),
                     !.overflow = PxRect(0, 0, 2, 2),
                     !.scroll_layer_id = Some(Normal(1)),
                     !.filters = <<[kind |-> "Opacity", arg |-> 50]>>,
                     !.establishes_3d_context = TRUE,
                     !.has_stacking_contexts = TRUE,
                     !.display_lists = <<2>>])
         @@ (3 :> [StackingContext_default EXCEPT
                     !.scroll_layer_id = Some(Normal(3)),
                     !.filters = <<[kind |-> "Blur", arg |-> Px]>>,
                     !.establishes_3d_context = TRUE,
                     !.has_stacking_contexts = TRUE,
                     !.display_lists = <<3>>])
         @@ (4 :> [StackingContext_default EXCEPT
                     !.scroll_policy = "Fixed",
                     !.display_lists = <<4>>])
         @@ (5 :> [StackingContext_default EXCEPT !.display_lists = <<5>>])
         @@ (9 :> [StackingContext_default EXCEPT
                     !.bounds = PxRect(1, 0, 2, 2),
                     !.overflow = PxRect(0, 0, 2, 2),
                     !.filters = <<[kind |-> "Opacity", arg |-> 50]>>,
                     !.display_lists = <<9>>])
         @@ (10 :> [StackingContext_default EXCEPT
                      !.bounds = PxRect(0, 2, 2, 2),
                      !.overflow = PxRect(0, 0, 2, 2),
                      !.filters = <<[kind |-> "Opacity", arg |-> 50]>>,
                      !.display_lists = <<10>>]),
     display_list_map |->
         (1 :> [items |-> <<DrawListItem("Content", 1),
                            StackingContextItem("Content", 2),
                            StackingContextItem("Content", 3),
                            StackingContextItem("Content", 9),
                            StackingContextItem("Content", 10)>>])
         @@ (2 :> [items |-> <<DrawListItem("Content", 3),
                               StackingContextItem("Content", 4),
                               IframeItem("Content", 2, PxRect(0, 0, 2, 2))>>])
         @@ (3 :> [items |-> <<>>])
         @@ (4 :> [items |-> <<DrawListItem("Content", 4)>>])
         @@ (5 :> [items |-> <<DrawListItem("Content", 5)>>])
         @@ (9 :> [items |-> <<DrawListItem("Content", 6)>>])
         @@ (10 :> [items |-> <<DrawListItem("Content", 7)>>])]

\* The root stacking context has no scroll layer id.
SceneRootNotLayer ==
    [SceneSingle EXCEPT !.stacking_context_map[1].scroll_layer_id = None]

\* A context with policy Fixed that carries a scroll layer id.
SceneFixedWithLayer ==
    [SceneNested EXCEPT !.stacking_context_map[2].scroll_policy = "Fixed"]

\* A Scrollable context inside the root layer L0 that asks for L0 again.
SceneDuplicateLayer ==
    [SceneNested EXCEPT !.stacking_context_map[2].scroll_layer_id = Some(Normal(0))]

\* The root pipeline id is not a key of the pipeline map.
SceneMissingPipeline == [SceneSingle EXCEPT !.root_pipeline_id = Some(2)]

\* The root pipeline's root stacking context is not a key of the
\* stacking-context map.
SceneMissingRootContext ==
    [SceneSingle EXCEPT !.pipeline_map[1].root_stacking_context_id = 2]

\* The root holds an iframe of pipeline 7, which the scene does not have,
\* between two draw lists, and an iframe of pipeline 2, whose root context (2)
\* is a scroll layer outside the clip of the root.
SceneIframes ==
    [root_pipeline_id |-> Some(1),
     pipeline_map |->
         (1 :> ScenePipeline(1, 12, 1, None))
         @@ (2 :> ScenePipeline(2, 13, 2, None)),
     stacking_context_map |->
         (1 :> [StackingContext_default EXCEPT
                  !.scroll_layer_id = Some(Normal(0)),
                  !.display_lists = <<1>>])
         @@ (2 :> [StackingContext_default EXCEPT
                     !.bounds = PxRect(5, 0, 2, 2),
                     !.overflow = PxRect(0, 0, 2, 2),
                     !.scroll_layer_id = Some(Normal(3)),
                     !.display_lists = <<2>>]),
     display_list_map |->
         (1 :> [items |-> <<DrawListItem("Content", 1),
                            IframeItem("Content", 7, PxRect(1, 1, 2, 2)),
                            DrawListItem("Content", 3),
                            IframeItem("Content", 2, PxRect(1, 0, 2, 1))>>])
         @@ (2 :> [items |-> <<DrawListItem("Content", 4)>>])]

\* Three scroll layers inside the root layer L0, in this order: L3, the root
\* of an iframe at the bottom left; L1 inside a context (2) two pixels to the
\* right; L2 inside a context (4) four pixels to the right.
SceneLayers ==
    [root_pipeline_id |-> Some(1),
     pipeline_map |->
         (1 :> ScenePipeline(1, 14, 1, None))
         @@ (2 :> ScenePipeline(2, 15, 6, None)),
     stacking_context_map |->
         (1 :> [StackingContext_default EXCEPT
                  !.overflow = PxRect(0, 0, 8, 3),
                  !.scroll_layer_id = Some(Normal(0)),
                  !.display_lists = <<1>>])
         @@ (2 :> [StackingContext_default EXCEPT
                     !.bounds = PxRect(2, 0, 4, 3),
                     !.display_lists = <<2>>])
         @@ (3 :> [StackingContext_default EXCEPT
                     !.scroll_layer_id = Some(Normal(1)),
                     !.display_lists = <<3>>])
         @@ (4 :> [StackingContext_default EXCEPT
                     !.bounds = PxRect(4, 0, 4, 3),
                     !.display_lists = <<4>>])
         @@ (5 :> [StackingContext_default EXCEPT
                     !.scroll_layer_id = Some(Normal(2)),
                     !.display_lists = <<5>>])
         @@ (6 :> [StackingContext_default EXCEPT
                     !.scroll_layer_id = Some(Normal(3)),
                     !.display_lists = <<6>>]),
     display_list_map |->
         (1 :> [items |-> <<DrawListItem("Content", 1),
                            IframeItem("Content", 2, PxRect(0, 2, 2, 1)),
                            StackingContextItem("Content", 2),
                            StackingContextItem("Content", 4)>>])
         @@ (2 :> [items |-> <<DrawListItem("Content", 3),
                               StackingContextItem("Content", 3)>>])
         @@ (3 :> [items |-> <<DrawListItem("Content", 4)>>])
         @@ (4 :> [items |-> <<DrawListItem("Content", 5),
                               StackingContextItem("Content", 5)>>])
         @@ (5 :> [items |-> <<DrawListItem("Content", 6)>>])
         @@ (6 :> [items |-> <<DrawListItem("Content", 7)>>])]

\* One draw list named by the display lists of two stacking contexts of one layer,
\* the second context one pixel right of and below the first.
SceneShared ==
    [root_pipeline_id |-> Some(1),
     pipeline_map |-> (1 :> ScenePipeline(1, 16, 1, None)),
     stacking_context_map |->
         (1 :> [StackingContext_default EXCEPT
                  !.overflow = PxRect(0, 0, 6, 3),
                  !.scroll_layer_id = Some(Normal(0)),
                  !.display_lists = <<1>>])
         @@ (2 :> [StackingContext_default EXCEPT
                     !.bounds = PxRect(1, 1, 3, 2),
                     !.overflow = PxRect(0, 0, 3, 2),
                     !.display_lists = <<2>>]),
     display_list_map |->
         (1 :> [items |-> <<DrawListItem("Content", 1), StackingContextItem("Content", 2)>>])
         @@ (2 :> [items |-> <<DrawListItem("Content", 1), DrawListItem("Content", 2)>>])]

Scenes ==
    <<SceneSingle, SceneWide, SceneWideFraction, SceneLarge, SceneNested,
      SceneEffects, SceneMany, SceneEmptyRoot, ScenePrunedRoot, SceneNoRoot,
      SceneFixed, ScenePruned, SceneRootNotLayer, SceneFixedWithLayer,
      SceneDuplicateLayer, SceneMissingPipeline, SceneMissingRootContext,
      SceneIframes, SceneLayers, SceneShared>>

\* The draw lists the resource cache holds: their items' rects.
DrawListIds == 1..(MAX_MATRICES_PER_BATCH + 2)

draw_list_rects(id) ==
    IF id = 2
    THEN <<[rect |-> PxRect(1, 1, 1, 1)], [rect |-> PxRect(5, 1, 1, 1)]>>
    ELSE <<[rect |-> PxRect(1, 1, 1, 1)]>>

ViewportSizes == {Size2D(4, 3)}

Deltas == {Point2D(Px, Px), Point2D(0, 0), Point2D(-Px - 1, 0), Point2D(-3 * Px, -Px)}

Cursors == {PxPoint(1, 1), PxPoint(5, 1)}

\* -------------------------------------------------------------------- state

VARIABLES
    layers,                  \* Frame.layers: ScrollLayerId -> Layer
    pipeline_epoch_map,      \* Frame.pipeline_epoch_map
    pending_updates,         \* Frame.pending_updates
    root,                    \* Frame.root: the arena position of the root target
    targets,                 \* the render targets owned by Frame.root
    stacking_context_info,   \* Frame.stacking_context_info
    next_render_target_id,   \* Frame.next_render_target_id
    next_draw_list_group_id, \* Frame.next_draw_list_group_id
    draw_list_groups,        \* Frame.draw_list_groups
    root_scroll_layer_id,    \* Frame.root_scroll_layer_id
    current_draw_list_group, \* FlattenContext.current_draw_list_group of the last create
    draw_lists,              \* resource cache: the draw lists
    allocated,               \* resource cache: render-target textures allocated and not freed
    double_free,             \* resource cache: a texture was freed that was not allocated
    resource_lists,          \* resource cache: resource lists added
    pipeline_sizes,          \* the caller's pipeline_sizes map
    next_vertex_buffer_id,   \* node compiler: the id of the next vertex buffer
    debug_assertions,        \* whether the build checks debug_assert!
    renderer_frame,          \* the RendererFrame returned when the last call was build
    add_log,                 \* history: the draw lists added by the last create, in order
    panic,                   \* "" or the message of the panic that ended the program
    creates,                 \* history: number of create calls
    last_call,               \* history: the last call and what it returned
    collect_input,           \* the argument of a collect_scene_items call made on its own
    collect_output,          \* what that call returned
    pool,                    \* the build in progress: its phase and the thread pool's tasks
    composition,             \* a composition_operations call made on its own: the
                             \* stacking context and what the call returned
    pushed                   \* a render target pushed to on its own, and the calls made

vars ==
    <<layers, pipeline_epoch_map, pending_updates, root, targets, stacking_context_info,
      next_render_target_id, next_draw_list_group_id, draw_list_groups,
      root_scroll_layer_id, current_draw_list_group, draw_lists, allocated, double_free,
      resource_lists, pipeline_sizes, next_vertex_buffer_id, debug_assertions,
      renderer_frame, add_log, panic, creates, last_call, collect_input, collect_output,
      pool, composition, pushed>>

\* The state as one record, the form the operations above work on.
self ==
    [layers |-> layers,
     pipeline_epoch_map |-> pipeline_epoch_map,
     pending_updates |-> pending_updates,
     root |-> root,
     targets |-> targets,
     stacking_context_info |-> stacking_context_info,
     next_render_target_id |-> next_render_target_id,
     next_draw_list_group_id |-> next_draw_list_group_id,
     draw_list_groups |-> draw_list_groups,
     root_scroll_layer_id |-> root_scroll_layer_id,
     current_draw_list_group |-> current_draw_list_group,
     draw_lists |-> draw_lists,
     allocated |-> allocated,
     double_free |-> double_free,
     resource_lists |-> resource_lists,
     pipeline_sizes |-> pipeline_sizes,
     next_vertex_buffer_id |-> next_vertex_buffer_id,
     debug_assertions |-> debug_assertions,
     renderer_frame |-> renderer_frame,
     add_log |-> add_log,
     panic |-> panic]

\* The frame, the resource cache and the caller's maps become those of fr.
CommitFrame(fr) ==
    /\ layers' = fr.layers
    /\ pipeline_epoch_map' = fr.pipeline_epoch_map
    /\ pending_updates' = fr.pending_updates
    /\ root' = fr.root
    /\ targets' = fr.targets
    /\ stacking_context_info' = fr.stacking_context_info
    /\ next_render_target_id' = fr.next_render_target_id
    /\ next_draw_list_group_id' = fr.next_draw_list_group_id
    /\ draw_list_groups' = fr.draw_list_groups
    /\ root_scroll_layer_id' = fr.root_scroll_layer_id
    /\ current_draw_list_group' = fr.current_draw_list_group
    /\ draw_lists' = fr.draw_lists
    /\ allocated' = fr.allocated
    /\ double_free' = fr.double_free
    /\ resource_lists' = fr.resource_lists
    /\ pipeline_sizes' = fr.pipeline_sizes
    /\ next_vertex_buffer_id' = fr.next_vertex_buffer_id
    /\ debug_assertions' = fr.debug_assertions
    /\ renderer_frame' = fr.renderer_frame
    /\ add_log' = fr.add_log
    /\ panic' = fr.panic

\* A call that runs from start to end with no build in progress.
Commit(fr) ==
    /\ CommitFrame(fr)
    /\ UNCHANGED <<collect_input, collect_output, pool, composition, pushed>>

\* No build in progress: no phase, no scope left to open, no task.
PoolIdle == [phase |-> "idle", scopes |-> <<>>, pending |-> {}, given |-> <<>>]

\* Frame::new, a resource cache holding the draw lists, and no call made yet.
InitFrame ==
    /\ layers = EmptyMap
    /\ pipeline_epoch_map = EmptyMap
    /\ pending_updates = <<>>
    /\ root = None
    /\ targets = <<>>
    /\ stacking_context_info = <<>>
    /\ next_render_target_id = 0
    /\ next_draw_list_group_id = 0
    /\ draw_list_groups = EmptyMap
    /\ root_scroll_layer_id = None
    /\ current_draw_list_group = None
    /\ draw_lists = [id \in DrawListIds |->
                        [items |-> draw_list_rects(id), stacking_context_index |-> None]]
    /\ allocated = {}
    /\ double_free = FALSE
    /\ resource_lists = {}
    /\ pipeline_sizes = EmptyMap
    /\ next_vertex_buffer_id = 0
    /\ renderer_frame = None
    /\ add_log = <<>>
    /\ panic = ""
    /\ creates = 0
    /\ last_call = [op |-> "new"]
    /\ pool = PoolIdle

Init ==
    /\ InitFrame
    /\ debug_assertions = TRUE
    /\ collect_input = None
    /\ collect_output = None
    /\ composition = None
    /\ pushed = None

\* Frame::new() in a build with debug_assert! checked or compiled out.
InitAnyBuild ==
    /\ InitFrame
    /\ debug_assertions \in BOOLEAN
    /\ collect_input = None
    /\ collect_output = None
    /\ composition = None
    /\ pushed = None

\* ------------------------------------------------------------------ actions

\* frame.create(scene, resource_cache, pipeline_sizes, viewport_size)
Create(s, viewport_size) ==
    /\ panic = ""
    /\ creates < MaxCreates
    /\ Commit([Frame_create(self, Scenes[s], viewport_size) EXCEPT !.renderer_frame = None])
    /\ creates' = creates + 1
    /\ last_call' = [op |-> "create", scene |-> s, viewport_size |-> viewport_size,
                     before |-> [id \in DOMAIN layers |-> layers[id].scroll_offset]]

\* frame.scroll(delta, cursor)
Scroll(delta, cursor) ==
    /\ panic = ""
    /\ Commit([Frame_scroll(self, delta, cursor) EXCEPT !.renderer_frame = None])
    /\ creates' = creates
    /\ last_call' = [op |-> "scroll", delta |-> delta, cursor |-> cursor,
                     hit |-> scroll_target(self, cursor),
                     before |-> [id \in DOMAIN layers |-> layers[id].scroll_offset]]

\* frame.reset(resource_cache)
Reset ==
    /\ panic = ""
    /\ Commit([Frame_reset(self).frame EXCEPT !.renderer_frame = None])
    /\ creates' = creates
    /\ last_call' = [op |-> "reset",
                     old_layer_offsets |-> Frame_reset(self).old_layer_offsets,
                     freed |-> allocated \ Frame_reset(self).frame.allocated]

\* frame.build(resource_cache, thread_pool, device_pixel_ratio)
Build ==
    /\ panic = ""
    /\ Commit(Frame_build(self))
    /\ creates' = creates
    /\ last_call' = [op |-> "build", again |-> last_call.op = "build",
                     enqueued |-> SubSeq(Frame_build(self).pending_updates,
                                         Len(pending_updates) + 1,
                                         Len(Frame_build(self).pending_updates))]

\* frame.pending_updates()
PendingUpdates ==
    /\ panic = ""
    /\ pending_updates # <<>>
    /\ Commit([self EXCEPT !.pending_updates = <<>>, !.renderer_frame = None])
    /\ creates' = creates
    /\ last_call' = [op |-> "pending_updates", taken |-> pending_updates]

\* frame.build(...) is called: the orchestrator enters the first phase.
BeginBuild ==
    /\ panic = ""
    /\ pool = PoolIdle
    /\ pool' = [PoolIdle EXCEPT !.phase = BuildPhases[1]]
    /\ CommitFrame([self EXCEPT !.renderer_frame = None])
    /\ last_call' = [op |-> "building", again |-> last_call.op = "build",
                     enqueued |-> <<>>]
    /\ UNCHANGED <<creates, collect_input, collect_output, composition, pushed>>

\* The orchestrator runs a phase that has no tasks; the last one returns the
\* RendererFrame.
RunPhase ==
    /\ pool.phase \in {"cull", "intake", "raster", "batch_cache", "transforms", "collect"}
    /\ CommitFrame(run_phase(self, pool.phase))
    /\ pool' = IF panicked(run_phase(self, pool.phase))
               THEN PoolIdle
               ELSE next_phase(pool.phase, run_phase(self, pool.phase).layers)
    /\ last_call' = [last_call EXCEPT
                       !.op = IF pool.phase = "collect" THEN "build" ELSE @,
                       !.enqueued = SubSeq(run_phase(self, pool.phase).pending_updates,
                                           Len(pending_updates) + 1 - Len(@),
                                           Len(run_phase(self, pool.phase).pending_updates))]
    /\ UNCHANGED <<creates, collect_input, collect_output, composition, pushed>>

\* thread_pool.scoped: the orchestrator opens the next scope of a parallel
\* phase, once the tasks of the scope before have all ended, and gives one
\* task to each node of the scope that is visible and not compiled.
Fork ==
    /\ pool.phase \in {"resource", "compile"}
    /\ pool.pending = {}
    /\ pool.scopes # <<>>
    /\ LET tasks == scope_tasks(layers, Head(pool.scopes), 1)
       IN pool' = [pool EXCEPT
                     !.scopes = Tail(@),
                     !.pending = {tasks[i] : i \in 1..Len(tasks)},
                     !.given = @ \o tasks]
    /\ CommitFrame(self)
    /\ UNCHANGED <<creates, last_call, collect_input, collect_output, composition, pushed>>

\* A worker runs the task of node p to its end.
Work(p) ==
    /\ p \in pool.pending
    /\ CommitFrame(run_task(self, pool.phase, p))
    /\ pool' = [pool EXCEPT !.pending = @ \ {p}]
    /\ UNCHANGED <<creates, last_call, collect_input, collect_output, composition, pushed>>

\* Join with tasks of the last scope still running.
Join_early ==
    /\ pool.phase \in {"resource", "compile"}
    /\ pool.scopes = <<>>
    /\ pool' = next_phase(pool.phase, layers)
    /\ CommitFrame(self)
    /\ UNCHANGED <<creates, last_call, collect_input, collect_output, composition, pushed>>

\* The last scope of a parallel phase has ended: the next phase starts.
Join ==
    /\ pool.phase \in {"resource", "compile"}
    /\ pool.pending = {}
    /\ pool.scopes = <<>>
    /\ pool' = next_phase(pool.phase, layers)
    /\ CommitFrame(self)
    /\ UNCHANGED <<creates, last_call, collect_input, collect_output, composition, pushed>>

\* The scenes of the life-cycle specification, as positions in Scenes.
LifecycleScenes == {1, 5, 6, 7, 10}

\* The scenes of the scroll specification.
ScrollScenes == {1, 2, 3, 4, 5, 8, 9, 10}

\* The life cycle of a frame: create, build, scroll, reset, pending_updates.
Next ==
    \/ \E s \in LifecycleScenes, v \in ViewportSizes : Create(s, v)
    \/ Scroll(Point2D(-3 * Px, -Px), PxPoint(1, 1))
    \/ Reset
    \/ Build
    \/ PendingUpdates

Spec == Init /\ [][Next]_vars

\* Scrolling: create, scroll with every delta and cursor, reset.
NextScroll ==
    \/ \E s \in ScrollScenes, v \in ViewportSizes : Create(s, v)
    \/ \E d \in Deltas, c \in Cursors : Scroll(d, c)
    \/ Reset

SpecScroll == Init /\ [][NextScroll]_vars

\* The scenes of the flattening specification.
FlattenScenes == {5, 6, 11, 12}

\* Flattening: create over scenes of nested contexts, scroll, build, reset.
NextFlatten ==
    \/ \E s \in FlattenScenes, v \in ViewportSizes : Create(s, v)
    \/ \E c \in Cursors : Scroll(Point2D(-3 * Px, -Px), c)
    \/ Reset
    \/ Build

SpecFlatten == Init /\ [][NextFlatten]_vars

\* The scenes of the specification of scenes that break a rule.
InvalidScenes == {1, 5, 13, 14, 15, 16, 17, 18}

\* The life cycle over scenes with a missing reference or a broken structural
\* rule, in debug and in release builds.
NextInvalid ==
    \/ \E s \in InvalidScenes, v \in ViewportSizes : Create(s, v)
    \/ \E c \in Cursors : Scroll(Point2D(-3 * Px, -Px), c)
    \/ Reset
    \/ Build

SpecInvalid == InitAnyBuild /\ [][NextInvalid]_vars

\* The longest list of filters of a stacking context.
MaxFilters == 3

\* The filters the stacking contexts of the effects specification draw from;
\* amounts in hundredths, angles in whole radians, the blur radius a length.
FilterPool ==
    {[kind |-> "Blur", arg |-> Px],
     [kind |-> "Opacity", arg |-> 50],
     [kind |-> "HueRotate", arg |-> 1],
     [kind |-> "Sepia", arg |-> 100]}

MixBlendModes == {"Normal", "Multiply", "Luminosity"}

RECURSIVE SeqsUpTo(_, _)
\* The sequences over S of length n at most.
SeqsUpTo(S, n) ==
    IF n = 0
    THEN {<<>>}
    ELSE SeqsUpTo(S, n - 1)
         \cup {Append(q, x) : q \in {r \in SeqsUpTo(S, n - 1) : Len(r) = n - 1}, x \in S}

\* Stacking contexts with every blend mode and every list of filters.
EffectContexts ==
    {[StackingContext_default EXCEPT
        !.bounds = PxRect(1, 1, 2, 2),
        !.overflow = PxRect(0, 0, 2, 2),
        !.mix_blend_mode = mode,
        !.filters = filters,
        !.display_lists = <<2>>] :
     mode \in MixBlendModes, filters \in SeqsUpTo(FilterPool, MaxFilters)}

\* The scene of a root scroll layer that holds the stacking context sc.
SceneOfContext(sc) ==
    [SceneNested EXCEPT !.stacking_context_map[2] = sc]

InitEffects ==
    /\ InitFrame
    /\ debug_assertions = TRUE
    /\ collect_input = None
    /\ collect_output = None
    /\ composition \in {Some([stacking_context |-> sc, operations |-> None]) :
                            sc \in EffectContexts}
    /\ pushed = None

\* stacking_context.composition_operations()
CompositionOperations ==
    /\ is_none(unwrap(composition).operations)
    /\ composition' =
           Some([unwrap(composition) EXCEPT
                   !.operations = Some(composition_operations(
                                           unwrap(composition).stacking_context))])
    /\ UNCHANGED <<layers, pipeline_epoch_map, pending_updates, root, targets,
                   stacking_context_info, next_render_target_id, next_draw_list_group_id,
                   draw_list_groups, root_scroll_layer_id, current_draw_list_group,
                   draw_lists, allocated, double_free, resource_lists, pipeline_sizes,
                   next_vertex_buffer_id, debug_assertions, renderer_frame, add_log,
                   panic, creates, last_call, collect_input, collect_output, pool,
                   pushed>>

\* frame.create of the scene that holds the stacking context.
CreateEffects(viewport_size) ==
    /\ panic = ""
    /\ creates < 1
    /\ CommitFrame([Frame_create(self, SceneOfContext(unwrap(composition).stacking_context),
                                 viewport_size)
                       EXCEPT !.renderer_frame = None])
    /\ creates' = creates + 1
    /\ last_call' = [op |-> "create", scene |-> 0, viewport_size |-> viewport_size,
                     before |-> [id \in DOMAIN layers |-> layers[id].scroll_offset]]
    /\ UNCHANGED <<collect_input, collect_output, pool, composition, pushed>>

NextEffects ==
    \/ CompositionOperations
    \/ \E v \in ViewportSizes : CreateEffects(v)

SpecEffects == InitEffects /\ [][NextEffects]_vars

\* The scenes of the hit-test specification: scroll layers inside scroll
\* layers, beneath the fixed layer and side by side.
HitScenes == {5, 11, 19}

\* create and scroll over scenes with several scroll layers.
NextHit ==
    \/ \E s \in HitScenes, v \in ViewportSizes : Create(s, v)
    \/ \E d \in Deltas, c \in Cursors : Scroll(d, c)

SpecHit == Init /\ [][NextHit]_vars

\* The scenes of the palette specification: nested layers, child render targets,
\* and a draw list shared by two stacking contexts.
PaletteScenes == {6, 11, 20}

NextPalette ==
    \/ \E s \in PaletteScenes, v \in ViewportSizes : Create(s, v)
    \/ \E c \in Cursors : Scroll(Point2D(-3 * Px, -Px), c)
    \/ Build

SpecPalette == Init /\ [][NextPalette]_vars

\* The most calls made on the render target of the push specification.
MaxPushes == 4

\* The operations pushed: a blend mode, which reads the framebuffer, and two
\* filters, which do not.
PushOps ==
    {CompositionOp_MixBlend("Multiply"),
     CompositionOp_Filter("Opacity", 30, "None"),
     CompositionOp_Filter("Blur", Px, "Horizontal")}

\* What the push actions leave alone.
frame_vars ==
    <<layers, pipeline_epoch_map, pending_updates, root, targets, stacking_context_info,
      next_render_target_id, next_draw_list_group_id, draw_list_groups,
      root_scroll_layer_id, current_draw_list_group, draw_lists, allocated, double_free,
      resource_lists, pipeline_sizes, next_vertex_buffer_id, debug_assertions,
      renderer_frame, add_log, panic, creates, last_call, collect_input, collect_output,
      pool, composition>>

\* RenderTarget::new on its own.
InitPush ==
    /\ InitFrame
    /\ debug_assertions = TRUE
    /\ collect_input = None
    /\ collect_output = None
    /\ composition = None
    /\ pushed = Some([target |-> RenderTarget_new(0, Size2D(4, 3)), calls |-> <<>>])

\* target.push_clear(clear_info)
PushClear ==
    /\ Len(unwrap(pushed).calls) < MaxPushes
    /\ pushed' = Some([target |-> push_clear(unwrap(pushed).target, ClearZ),
                       calls |-> Append(unwrap(pushed).calls, [kind |-> "Clear"])])
    /\ UNCHANGED frame_vars

\* target.push_draw_list_group(draw_list_group_id)
PushDrawListGroup ==
    /\ Len(unwrap(pushed).calls) < MaxPushes
    /\ pushed' = Some([target |-> push_draw_list_group(unwrap(pushed).target,
                                                       Len(unwrap(pushed).calls)),
                       calls |-> Append(unwrap(pushed).calls, [kind |-> "DrawListBatch"])])
    /\ UNCHANGED frame_vars

\* target.push_composite(op, rect, render_target_index)
PushComposite(op, render_target_index) ==
    /\ Len(unwrap(pushed).calls) < MaxPushes
    /\ pushed' = Some([target |-> push_composite(unwrap(pushed).target, op,
                                                 PxRect(0, 0, 2, 2), render_target_index),
                       calls |-> Append(unwrap(pushed).calls,
                                        [kind |-> "CompositeBatch",
                                         operation |-> op,
                                         render_target_index |-> render_target_index])])
    /\ UNCHANGED frame_vars

NextPush ==
    \/ PushClear
    \/ PushDrawListGroup
    \/ \E op \in PushOps, render_target_index \in {0, 1} :
          PushComposite(op, render_target_index)

SpecPush == InitPush /\ [][NextPush]_vars

\* The scenes of the thread-pool specification.
WorkerScenes == {5, 6, 11}

\* Build phase by phase, the tasks of a scope in any order; create and scroll
\* between builds.
NextWorkers ==
    \/ /\ pool = PoolIdle
       /\ \E s \in WorkerScenes, v \in ViewportSizes : Create(s, v)
    \/ /\ pool = PoolIdle
       /\ Scroll(Point2D(-3 * Px, -Px), PxPoint(1, 1))
    \/ BeginBuild
    \/ RunPhase
    \/ Fork
    \/ \E p \in pool.pending : Work(p)
    \/ Join

SpecWorkers == Init /\ [][NextWorkers]_vars

\* ------------------------------------------- collect_scene_items on its own

\* Number of display-list items of a collected stacking context.
MaxItems == 3

\* The items a collected stacking context draws from: every stacking level,
\* two Content draw lists, and positioned items with z-index 0, 0, -1, 0, 1, -2.
ItemPool ==
    {DrawListItem("BackgroundAndBorders", 1),
     DrawListItem("BlockBackgroundAndBorders", 2),
     DrawListItem("Floats", 3),
     DrawListItem("Content", 4),
     DrawListItem("Content", 5),
     DrawListItem("Outlines", 6),
     DrawListItem("PositionedContent", 7),
     IframeItem("PositionedContent", 2, PxRect(0, 0, 1, 1)),
     StackingContextItem("PositionedContent", 11),
     StackingContextItem("PositionedContent", 12),
     StackingContextItem("PositionedContent", 13),
     StackingContextItem("PositionedContent", 14)}

InjectiveSeqs(S, n) ==
    UNION {{q \in [1..m -> S] : \A i, j \in 1..m : i # j => q[i] # q[j]} : m \in 0..n}

\* The scene around the collected stacking context (id 1): its items are
\* split over two display lists; pipeline 1 has a background draw list.
CollectScene(items, split) ==
    [root_pipeline_id |-> Some(1),
     pipeline_map |-> (1 :> ScenePipeline(1, 1, 1, Some(9))),
     stacking_context_map |->
         (1 :> [StackingContext_default EXCEPT
                  !.scroll_layer_id = Some(Normal(0)),
                  !.display_lists = <<1, 2>>])
         @@ (11 :> [StackingContext_default EXCEPT !.z_index = -1])
         @@ (12 :> [StackingContext_default EXCEPT !.z_index = 0])
         @@ (13 :> [StackingContext_default EXCEPT !.z_index = 1])
         @@ (14 :> [StackingContext_default EXCEPT !.z_index = -2]),
     display_list_map |->
         (1 :> [items |-> SubSeq(items, 1, split)])
         @@ (2 :> [items |-> SubSeq(items, split + 1, Len(items))])]

CollectInputs ==
    {[kind |-> k, items |-> q, split |-> n] :
        k \in {"StackingContext", "Pipeline"},
        q \in InjectiveSeqs(ItemPool, MaxItems),
        n \in {0, 1}}

InitCollect ==
    /\ InitFrame
    /\ debug_assertions = TRUE
    /\ collect_input \in {Some(c) : c \in CollectInputs}
    /\ collect_output = None
    /\ composition = None
    /\ pushed = None

\* scene_item.collect_scene_items(&scene)
CollectSceneItems ==
    /\ collect_output = None
    /\ LET c == unwrap(collect_input)
           split == IF c.split <= Len(c.items) THEN c.split ELSE 0
           scene == CollectScene(c.items, split)
       IN collect_output' =
              Some(IF c.kind = "Pipeline"
                   THEN collect_scene_items("Pipeline", scene.pipeline_map[1], scene)
                   ELSE collect_scene_items("StackingContext",
                                            scene.stacking_context_map[1], scene))
    /\ UNCHANGED <<layers, pipeline_epoch_map, pending_updates, root, targets,
                   stacking_context_info, next_render_target_id, next_draw_list_group_id,
                   draw_list_groups, root_scroll_layer_id, current_draw_list_group,
                   draw_lists, allocated, double_free, resource_lists, pipeline_sizes,
                   next_vertex_buffer_id, debug_assertions, renderer_frame, add_log,
                   panic, creates, last_call, collect_input, pool, composition, pushed>>

NextCollect == CollectSceneItems

SpecCollect == InitCollect /\ [][NextCollect]_vars

\* ------------------------------------------------------------------ claims

\* The draw lists the last create added to group g, in the order added.
GroupEntries(g) == SelectSeq(add_log, LAMBDA e : e.draw_list_group_id = g)

\* C1: every draw-list group holds only draw lists that were added while the
\* flattener's actual scroll layer id and current render target id equalled
\* the group's own, and never more than MAX_MATRICES_PER_BATCH of them (the
\* open group during flatten included); a draw list that arrives with another
\* scroll layer, another target, or at a full group closes the group and
\* starts a new one, and any other draw list joins the open group.
C1_GroupsShareKeyAndAreBounded ==
    /\ \A g \in DOMAIN draw_list_groups :
          LET group == draw_list_groups[g]
              entries == GroupEntries(g)
          IN /\ group.id = g
             /\ Len(group.draw_list_ids) <= MAX_MATRICES_PER_BATCH
             /\ Len(group.draw_list_ids) = Len(entries)
             /\ \A i \in 1..Len(entries) :
                   /\ entries[i].draw_list_id = group.draw_list_ids[i]
                   /\ entries[i].scroll_layer_id = group.scroll_layer_id
                   /\ entries[i].render_target_id = group.render_target_id
                   /\ entries[i].group_len = i
    /\ \A i \in 1..Len(add_log) :
          /\ add_log[i].group_len >= 1
          /\ add_log[i].group_len <= MAX_MATRICES_PER_BATCH
    /\ \A i \in 1..(Len(add_log) - 1) :
          LET a == add_log[i]
              b == add_log[i + 1]
              admitted == /\ b.scroll_layer_id = a.scroll_layer_id
                          /\ b.render_target_id = a.render_target_id
                          /\ a.group_len < MAX_MATRICES_PER_BATCH
          IN IF admitted
             THEN b.draw_list_group_id = a.draw_list_group_id /\ b.group_len = a.group_len + 1
             ELSE b.draw_list_group_id # a.draw_list_group_id /\ b.group_len = 1

\* A create has filled a group to MAX_MATRICES_PER_BATCH and put the next draw
\* list, of the same scroll layer and target, into a new stored group.
C1_Witness ==
    /\ last_call.op = "create"
    /\ \E i \in 1..(Len(add_log) - 1) :
          /\ add_log[i].group_len = MAX_MATRICES_PER_BATCH
          /\ add_log[i + 1].scroll_layer_id = add_log[i].scroll_layer_id
          /\ add_log[i + 1].render_target_id = add_log[i].render_target_id
          /\ add_log[i + 1].draw_list_group_id # add_log[i].draw_list_group_id
          /\ add_log[i].draw_list_group_id \in DOMAIN draw_list_groups
          /\ add_log[i + 1].draw_list_group_id \in DOMAIN draw_list_groups

\* The range of a scroll offset on one axis.
AxisOffsetInRange(offset, layer_size, viewport_size) ==
    IF layer_size > viewport_size
    THEN -(layer_size - viewport_size) <= offset /\ offset <= 0
    ELSE offset = 0

\* C2: for every layer and each axis, the scroll offset lies in
\* [-(layer_size - viewport_size), 0] when layer_size > viewport_size on that
\* axis and is 0 otherwise, in every state reached by create and scroll calls.
C2_ScrollOffsetInRange ==
    \A id \in DOMAIN layers :
        LET layer == layers[id]
        IN /\ AxisOffsetInRange(layer.scroll_offset.x, layer.layer_size.width,
                                layer.viewport_size.width)
           /\ AxisOffsetInRange(layer.scroll_offset.y, layer.layer_size.height,
                                layer.viewport_size.height)

\* The textures held by the render targets of the current tree.
TreeTextures ==
    {unwrap(targets[t].child_texture_id) :
        t \in {u \in 1..Len(targets) : is_some(targets[u].child_texture_id)}}

\* C3: the textures allocated and not yet freed are exactly the
\* child_texture_id values of the render targets of the current tree, no two
\* targets hold the same texture, no texture is ever freed twice, and after a
\* reset no texture is left allocated.
C3_TexturesPaired ==
    /\ allocated = TreeTextures
    /\ \A t, u \in 1..Len(targets) :
          (/\ t # u
           /\ is_some(targets[t].child_texture_id)
           /\ is_some(targets[u].child_texture_id))
          => targets[t].child_texture_id # targets[u].child_texture_id
    /\ ~double_free
    /\ (is_none(root) => targets = <<>>)
    /\ (last_call.op = "reset" => allocated = {})

\* A reset has run on a tree whose targets held two textures, allocated by a
\* build, and has taken both back.
C3_Witness ==
    /\ last_call.op = "reset"
    /\ Cardinality(last_call.freed) = 2
    /\ allocated = {}
    /\ ~double_free

\* C4: a reset leaves no layers, no draw-list groups, no stacking-context
\* info, an empty pipeline_epoch_map and root = None, and returns the scroll
\* offset each layer had when reset was called, for exactly the layers that
\* existed.
C4_ResetClearsFrame ==
    [][last_call'.op = "reset" =>
          /\ layers' = EmptyMap
          /\ draw_list_groups' = EmptyMap
          /\ stacking_context_info' = <<>>
          /\ pipeline_epoch_map' = EmptyMap
          /\ root' = None
          /\ DOMAIN last_call'.old_layer_offsets = DOMAIN layers
          /\ \A id \in DOMAIN layers :
                last_call'.old_layer_offsets[id] = layers[id].scroll_offset]_vars

\* A reset has run after a create and a scroll, and returned a non-zero offset.
C4_Witness ==
    /\ last_call.op = "reset"
    /\ creates > 0
    /\ layers = EmptyMap
    /\ \E id \in DOMAIN last_call.old_layer_offsets :
          last_call.old_layer_offsets[id] # Point2D_zero

\* The input of the collect_scene_items call: the stacking context's items in
\* display-list order, and the pipeline's background draw list if there is one.
CollectedItems == unwrap(collect_input).items

CollectedBackground ==
    IF unwrap(collect_input).kind = "Pipeline"
    THEN <<DrawListItem("BackgroundAndBorders", 9)>>
    ELSE <<>>

\* The z-index of an item of the collected stacking context.
PaintZ(item) ==
    IF item.specific.kind = "StackingContext"
    THEN CASE item.specific.id = 11 -> -1
           [] item.specific.id = 12 -> 0
           [] item.specific.id = 13 -> 1
           [] item.specific.id = 14 -> -2
    ELSE 0

\* The place of an item's class in CSS 2.1 Appendix E paint order.
PaintClass(item) ==
    CASE item.stacking_level = "BackgroundAndBorders" -> 0
      [] item.stacking_level = "PositionedContent" /\ PaintZ(item) < 0 -> 1
      [] item.stacking_level = "BlockBackgroundAndBorders" -> 2
      [] item.stacking_level = "Floats" -> 3
      [] item.stacking_level = "Content" -> 4
      [] item.stacking_level = "PositionedContent" /\ PaintZ(item) >= 0 -> 5
      [] item.stacking_level = "Outlines" -> 6

\* C5: collect_scene_items returns a permutation of the stacking context's
\* items, preceded by the pipeline's background draw list when the item is a
\* pipeline that has one, in paint order: BackgroundAndBorders, positioned
\* items with z < 0 in ascending z, BlockBackgroundAndBorders, Floats,
\* Content, positioned items with z >= 0 in ascending z, Outlines; nothing is
\* dropped or duplicated.
C5_PaintOrder ==
    is_some(collect_output) =>
        LET out == unwrap(collect_output)
            expected == CollectedBackground \o CollectedItems
        IN /\ Len(out) = Len(expected)
           /\ \A i \in 1..Len(expected) :
                 Cardinality({j \in 1..Len(out) : out[j] = expected[i]}) = 1
           /\ \A i \in 1..Len(CollectedBackground) : out[i] = CollectedBackground[i]
           /\ \A i, j \in 1..Len(out) :
                 i < j =>
                    /\ PaintClass(out[i]) <= PaintClass(out[j])
                    /\ (/\ out[i].stacking_level = "PositionedContent"
                        /\ out[j].stacking_level = "PositionedContent")
                       => PaintZ(out[i]) <= PaintZ(out[j])

\* A pipeline with a background was collected whose display lists hold an
\* outline, then a positioned item with z >= 0, then one with z < 0: the
\* output reverses them behind the background.
C5_Witness ==
    /\ is_some(collect_output)
    /\ unwrap(collect_input).kind = "Pipeline"
    /\ Len(CollectedItems) = 3
    /\ CollectedItems[1].stacking_level = "Outlines"
    /\ PaintClass(CollectedItems[2]) = 5
    /\ PaintClass(CollectedItems[3]) = 1
    /\ unwrap(collect_output) =
          CollectedBackground \o <<CollectedItems[3], CollectedItems[2], CollectedItems[1]>>

\* The place of an item in the output.
OutputIndex(item) ==
    CHOOSE j \in 1..Len(unwrap(collect_output)) : unwrap(collect_output)[j] = item

\* C6: two items of the same stacking level and equal z-index (a DrawList or
\* Iframe counts as z = 0, a StackingContext has its own z_index) appear in
\* the output in the same relative order as in the input display lists.
C6_PaintOrderStable ==
    is_some(collect_output) =>
        \A i, j \in 1..Len(CollectedItems) :
            (/\ i < j
             /\ CollectedItems[i].stacking_level = CollectedItems[j].stacking_level
             /\ PaintZ(CollectedItems[i]) = PaintZ(CollectedItems[j]))
            => /\ \E k \in 1..Len(unwrap(collect_output)) :
                     unwrap(collect_output)[k] = CollectedItems[i]
               /\ \E k \in 1..Len(unwrap(collect_output)) :
                     unwrap(collect_output)[k] = CollectedItems[j]
               /\ OutputIndex(CollectedItems[i]) < OutputIndex(CollectedItems[j])

\* The sort moved a positioned item with z = 1 from the front to the back,
\* behind a draw list and a stacking context that both have z = 0 and sit in
\* two different display lists, and kept those two in input order.
C6_Witness ==
    /\ is_some(collect_output)
    /\ unwrap(collect_input).split = 1
    /\ Len(CollectedItems) = 3
    /\ CollectedItems[1] = StackingContextItem("PositionedContent", 13)
    /\ CollectedItems[2].specific.kind = "DrawList"
    /\ CollectedItems[2].stacking_level = "PositionedContent"
    /\ CollectedItems[3] = StackingContextItem("PositionedContent", 12)
    /\ OutputIndex(CollectedItems[2]) < OutputIndex(CollectedItems[3])
    /\ OutputIndex(CollectedItems[3]) < OutputIndex(CollectedItems[1])

\* The offset the clamp formula gives on one axis.
ClampedOffset(old_offset, delta, layer_size, viewport_size) ==
    round(Min(0, Max(-(layer_size - viewport_size), old_offset + delta)))

\* What a scroll that hits a layer does to one axis of it.
AxisScrolled(old_offset, new_offset, delta, layer_size, viewport_size) ==
    layer_size > viewport_size =>
        /\ new_offset = ClampedOffset(old_offset, delta, layer_size, viewport_size)
        /\ (old_offset = 0 /\ delta >= 0) => new_offset = 0
        /\ (old_offset = round(-(layer_size - viewport_size)) /\ delta <= 0)
              => new_offset = old_offset
        /\ (layer_size - viewport_size) % Px = 0
              => new_offset >= -(layer_size - viewport_size)

\* The fields of the frame other than the layers.
OtherFrameState ==
    <<pipeline_epoch_map, pending_updates, root, targets, stacking_context_info,
      next_render_target_id, next_draw_list_group_id, draw_list_groups,
      root_scroll_layer_id, draw_lists, allocated, double_free, resource_lists>>

C8_MissIsNoOp ==
    [][last_call'.op = "scroll" =>
          /\ (is_none(root_scroll_layer_id)
              \/ ~contains_key(layers, unwrap(root_scroll_layer_id)))
                => is_none(last_call'.hit)
          /\ is_none(last_call'.hit) =>
                /\ layers' = layers
                /\ UNCHANGED OtherFrameState
                /\ panic' = ""]_vars

\* A scroll with a non-zero delta was made after a reset: the root scroll
\* layer id is still set, the layer map is empty, and nothing was hit.
C8_Witness ==
    /\ last_call.op = "scroll"
    /\ is_none(last_call.hit)
    /\ last_call.delta # Point2D_zero
    /\ is_some(root_scroll_layer_id)
    /\ layers = EmptyMap
    /\ panic = ""

\* C9: for a hit layer with layer_size <= viewport_size on an axis, after
\* scroll(delta, cursor) the scroll offset on that axis is 0, whatever the
\* delta and whatever offset the layer carried before the call.
C9_UnscrollableAxisIsZero ==
    (last_call.op = "scroll" /\ is_some(last_call.hit)) =>
        LET layer == layers[unwrap(last_call.hit)]
        IN /\ layer.layer_size.width <= layer.viewport_size.width
                => layer.scroll_offset.x = 0
           /\ layer.layer_size.height <= layer.viewport_size.height
                => layer.scroll_offset.y = 0

\* C10: scroll((0,0), cursor) changes no layer's scroll offset other than by
\* rounding the hit layer's offset to whole pixels, in every reachable state.
C10_ZeroScrollOnlyRounds ==
    (last_call.op = "scroll" /\ last_call.delta = Point2D_zero) =>
        /\ DOMAIN layers = DOMAIN last_call.before
        /\ \A id \in DOMAIN layers :
              layers[id].scroll_offset =
                  IF last_call.hit = Some(id)
                  THEN Point2D(round(last_call.before[id].x), round(last_call.before[id].y))
                  ELSE last_call.before[id]

\* C11: scroll state survives re-creation of the frame: after create, every
\* layer whose id existed in the frame immediately before the create has
\* exactly the scroll offset that layer had then, and every layer with a new
\* id (the fixed layer on the first create included) has offset (0,0).
C11_OffsetsSurviveCreate ==
    last_call.op = "create" =>
        \A id \in DOMAIN layers :
            layers[id].scroll_offset =
                IF id \in DOMAIN last_call.before
                THEN last_call.before[id]
                ELSE Point2D_zero

\* A create has kept a non-zero offset of a layer that existed before and
\* made a layer with a new id, which starts at the origin.
C11_Witness ==
    /\ last_call.op = "create"
    /\ \E id \in DOMAIN layers \cap DOMAIN last_call.before :
          /\ last_call.before[id] # Point2D_zero
          /\ layers[id].scroll_offset = last_call.before[id]
    /\ \E id \in DOMAIN layers \ DOMAIN last_call.before :
          layers[id].scroll_offset = Point2D_zero

\* ------------------------------------------------- the scene of a create
\* What the scene handed to the last create says, read off the scene alone.

CreatedScene == Scenes[last_call.scene]

AfterCreate == last_call.op = "create" /\ panic = ""

ContextItems(scene, c) ==
    display_list_items(scene, scene.stacking_context_map[c].display_lists, 1)

\* The pipelines whose root stacking context is c.
PipelinesOf(scene, c) ==
    {p \in DOMAIN scene.pipeline_map :
        scene.pipeline_map[p].root_stacking_context_id = c}

\* The draw lists a stacking context owns directly: those of its display
\* lists and the background of a pipeline it is the root of.
OwnDrawLists(scene, c) ==
    {ContextItems(scene, c)[i].specific.id :
        i \in {j \in 1..Len(ContextItems(scene, c)) :
                  ContextItems(scene, c)[j].specific.kind = "DrawList"}}
    \cup {unwrap(scene.pipeline_map[p].background_draw_list) :
            p \in {q \in PipelinesOf(scene, c) :
                     is_some(scene.pipeline_map[q].background_draw_list)}}

\* The stacking contexts directly inside c: its stacking-context items and
\* the root stacking contexts of the pipelines of its iframe items.
ChildContexts(scene, c) ==
    {n \in DOMAIN scene.stacking_context_map :
        \E i \in 1..Len(ContextItems(scene, c)) :
            LET specific == ContextItems(scene, c)[i].specific
            IN \/ specific.kind = "StackingContext" /\ specific.id = n
               \/ /\ specific.kind = "Iframe"
                  /\ specific.id \in PipelinesOf(scene, n)}

\* The entries of the last create's log for the draw lists c owns.
LogOf(scene, c) ==
    {e \in {add_log[i] : i \in 1..Len(add_log)} :
        e.draw_list_id \in OwnDrawLists(scene, c)}

\* c was flattened: a draw list it owns was added.
Flattened(scene, c) == LogOf(scene, c) # {}

\* The arena position of the render target the draw lists of c went into.
TargetOf(scene, c) ==
    CHOOSE t \in 1..Len(targets) :
        \E e \in LogOf(scene, c) : e.render_target_id = targets[t].id

RECURSIVE JobsOf(_, _)
\* The composite jobs of items[i..], in order, each with its operation.
JobsOf(items, i) ==
    IF i > Len(items)
    THEN <<>>
    ELSE (IF items[i].kind = "CompositeBatch"
          THEN [j \in 1..Len(items[i].info.jobs) |->
                   [operation |-> items[i].info.operation,
                    render_target_index |-> items[i].info.jobs[j].render_target_index]]
          ELSE <<>>)
         \o JobsOf(items, i + 1)

\* The operations of the jobs of target t that read child number index.
OperationsFor(t, index) ==
    LET jobs == SelectSeq(JobsOf(targets[t].items, 1),
                          LAMBDA j : j.render_target_index = index)
    IN [j \in 1..Len(jobs) |-> jobs[j].operation]

\* The stacking contexts of the scene that have composition operations.
CompositeContexts(scene) ==
    {c \in DOMAIN scene.stacking_context_map :
        composition_operations(scene.stacking_context_map[c]) # <<>>}

\* C12: a stacking context with k >= 1 composition operations flattened into
\* target T appends exactly one new target C to T.children, pushes k
\* composite jobs onto T.items in operation order, each with
\* render_target_index the position of C in T.children, and puts its own
\* draw lists and its descendants into C, not T; so every composite job's
\* index is below the number of children of the target that holds it.
C12_CompositeJobsPointAtChild ==
    /\ \A t \in 1..Len(targets) :
          \A j \in 1..Len(JobsOf(targets[t].items, 1)) :
              JobsOf(targets[t].items, 1)[j].render_target_index
                  < Len(targets[t].children)
    /\ AfterCreate /\ is_some(root) =>
          LET scene == CreatedScene
              composite == {c \in CompositeContexts(scene) : Flattened(scene, c)}
          IN /\ Len(targets) = 1 + Cardinality(composite)
             /\ \A c \in composite :
                   /\ \A e \in LogOf(scene, c) :
                         e.render_target_id = targets[TargetOf(scene, c)].id
                   /\ \A n \in ChildContexts(scene, c) \ composite :
                         Flattened(scene, n) => TargetOf(scene, n) = TargetOf(scene, c)
                   /\ \A p \in DOMAIN scene.stacking_context_map :
                         c \in ChildContexts(scene, p) /\ Flattened(scene, p) =>
                            LET C == TargetOf(scene, c)
                                T == TargetOf(scene, p)
                                at == {i \in 1..Len(targets[T].children) :
                                          targets[T].children[i] = C}
                            IN /\ C # T
                               /\ Cardinality(at) = 1
                               /\ \A t \in 1..Len(targets) :
                                     t # T =>
                                        \A i \in 1..Len(targets[t].children) :
                                            targets[t].children[i] # C
                               /\ \A i \in at :
                                     OperationsFor(T, i - 1) =
                                         composition_operations(
                                             scene.stacking_context_map[c])

\* A context with three operations inside a context with one: the three jobs
\* on the outer context's target read its only child.
C12_Witness ==
    /\ AfterCreate
    /\ last_call.scene = 6
    /\ Len(targets) = 3
    /\ \E t \in 1..Len(targets) :
          /\ t # unwrap(root)
          /\ Len(OperationsFor(t, 0)) = 3
          /\ Len(targets[t].children) = 1

\* Two contexts side by side whose jobs share one composite batch.
C12_WitnessSiblings ==
    /\ AfterCreate
    /\ last_call.scene = 12
    /\ Len(targets[unwrap(root)].children) = 2
    /\ \E i \in 1..Len(targets[unwrap(root)].items) :
          /\ targets[unwrap(root)].items[i].kind = "CompositeBatch"
          /\ Len(targets[unwrap(root)].items[i].info.jobs) = 2

\* The pipeline the frame is created from has c as its root stacking context.
IsRootContext(scene, c) ==
    /\ is_some(scene.root_pipeline_id)
    /\ unwrap(scene.root_pipeline_id) \in PipelinesOf(scene, c)

\* c is the root stacking context of a pipeline shown by an iframe item.
IsIframeRoot(scene, c) == ~IsRootContext(scene, c) /\ PipelinesOf(scene, c) # {}

\* The context that holds c, where there is one.
ParentContexts(scene, c) ==
    {p \in DOMAIN scene.stacking_context_map : c \in ChildContexts(scene, p)}

\* c has neither display items nor a pipeline background.
HasNoItems(scene, c) ==
    /\ ContextItems(scene, c) = <<>>
    /\ OwnDrawLists(scene, c) = {}

RECURSIVE ClipOf(_, _)
\* The clip rect of c in its own space, by the rule of the specification: the
\* clip of the context around it (everything, at the root and behind an
\* iframe) moved by minus c's bounds origin and cut to c's overflow.  None
\* when that is empty, when c has no items, or when a context around c
\* already has none.
ClipOf(scene, c) ==
    LET sc == scene.stacking_context_map[c]
        around ==
            IF IsRootContext(scene, c)
            THEN Some(MAX_RECT)
            ELSE IF ParentContexts(scene, c) = {}
            THEN None
            ELSE LET p == CHOOSE q \in ParentContexts(scene, c) : TRUE
                 IN IF is_none(ClipOf(scene, p))
                    THEN None
                    ELSE IF IsIframeRoot(scene, c)
                    THEN Some(MAX_RECT)
                    ELSE ClipOf(scene, p)
    IN IF is_none(around) \/ HasNoItems(scene, c)
       THEN None
       ELSE Rect_intersection(
                Rect_translate(unwrap(around), Point2D_neg(sc.bounds.origin)),
                sc.overflow)

\* The contexts that are not pruned, and the draw lists they own.
Live(scene) ==
    {c \in DOMAIN scene.stacking_context_map : is_some(ClipOf(scene, c))}

LiveDrawLists(scene) == UNION {OwnDrawLists(scene, c) : c \in Live(scene)}

\* The contexts of the scene that are pruned, directly or with a context
\* around them.
Pruned(scene) == DOMAIN scene.stacking_context_map \ Live(scene)

\* The scroll layers the contexts of a set ask for.
ScrollLayersOf(scene, contexts) ==
    {unwrap(scene.stacking_context_map[c].scroll_layer_id) :
        c \in {d \in contexts :
                 /\ scene.stacking_context_map[d].scroll_policy = "Scrollable"
                 /\ is_some(scene.stacking_context_map[d].scroll_layer_id)}}

RECURSIVE OperationCount(_, _)
\* The number of composition operations of the contexts of a set.
OperationCount(scene, contexts) ==
    IF contexts = {}
    THEN 0
    ELSE LET c == CHOOSE d \in contexts : TRUE
         IN Len(composition_operations(scene.stacking_context_map[c]))
            + OperationCount(scene, contexts \ {c})

RECURSIVE RenderItems(_, _)
\* The render items of targets t.., one target after the other.
RenderItems(ts, t) ==
    IF t > Len(ts) THEN <<>> ELSE ts[t].items \o RenderItems(ts, t + 1)

\* The draw lists with an entry in some layer's tree.
TreeDrawLists ==
    {item.draw_list_id :
        item \in UNION {UNION {{layers[id].aabb_tree.nodes[n].items[i] :
                                  i \in 1..Len(layers[id].aabb_tree.nodes[n].items)} :
                               n \in 1..Len(layers[id].aabb_tree.nodes)} :
                        id \in DOMAIN layers}}

\* C13: a stacking context whose clip (the parent's clip moved by minus the
\* context's bounds origin, cut to the context's overflow) is empty, or whose
\* collected item list is empty, adds nothing to the frame, and neither does
\* any context inside it: the layers, render targets, render items,
\* stacking-context infos, draw-list groups and tree entries of a created
\* frame are those of the contexts that are not pruned.
C13_PrunedContextsAddNothing ==
    AfterCreate /\ is_some(root) =>
        LET scene == CreatedScene
            live == Live(scene)
            items == RenderItems(targets, 1)
        IN /\ DOMAIN layers = {fixed_layer} \cup ScrollLayersOf(scene, live)
           /\ Len(targets) = 1 + Cardinality(live \cap CompositeContexts(scene))
           /\ Len(SelectSeq(items, LAMBDA it : it.kind = "Clear")) =
                 Cardinality({c \in live :
                                 /\ scene.stacking_context_map[c].establishes_3d_context
                                 /\ scene.stacking_context_map[c].has_stacking_contexts})
           /\ Len(JobsOf(items, 1)) = OperationCount(scene, live)
           /\ Len(SelectSeq(items, LAMBDA it : it.kind = "DrawListBatch")) =
                 Cardinality(DOMAIN draw_list_groups)
           /\ Len(stacking_context_info) = Cardinality(live)
           /\ \A g \in DOMAIN draw_list_groups :
                 \A i \in 1..Len(draw_list_groups[g].draw_list_ids) :
                     draw_list_groups[g].draw_list_ids[i] \in LiveDrawLists(scene)
           /\ {add_log[i].draw_list_id : i \in 1..Len(add_log)} = LiveDrawLists(scene)
           /\ TreeDrawLists \subseteq LiveDrawLists(scene)

\* A create of the scene with a context outside its parent's clip (with a
\* scroll layer, a filter, a fixed context and an iframe inside) and a context
\* without items (with a scroll layer and a filter).
C13_Witness ==
    /\ AfterCreate
    /\ last_call.scene = 12
    /\ Pruned(CreatedScene) = {2, 3, 4, 5}
    /\ HasNoItems(CreatedScene, 3)
    /\ ~HasNoItems(CreatedScene, 2)
    /\ ScrollLayersOf(CreatedScene, Pruned(CreatedScene)) = {Normal(1), Normal(3)}
    /\ Pruned(CreatedScene) \cap CompositeContexts(CreatedScene) = {2, 3}
    /\ Len(stacking_context_info) = 3
    /\ Len(targets) = 3

\* The entries of the tree of layer id.
TreeEntries(id) ==
    UNION {{layers[id].aabb_tree.nodes[n].items[i] :
               i \in 1..Len(layers[id].aabb_tree.nodes[n].items)} :
           n \in 1..Len(layers[id].aabb_tree.nodes)}

\* The contexts of the scene with scroll policy Fixed that are not pruned.
FixedContexts(scene) ==
    {c \in Live(scene) : scene.stacking_context_map[c].scroll_policy = "Fixed"}

\* C14: every draw list directly owned by a stacking context with scroll
\* policy Fixed is in a draw-list group whose scroll_layer_id is the fixed
\* layer, and its items are in the fixed layer's tree and in no other,
\* whatever the scroll layer of the context around it.
C14_FixedDrawListsOnFixedLayer ==
    AfterCreate /\ is_some(root) =>
        \A c \in FixedContexts(CreatedScene) :
            \A d \in OwnDrawLists(CreatedScene, c) :
                /\ \E e \in LogOf(CreatedScene, c) : e.draw_list_id = d
                /\ \A e \in LogOf(CreatedScene, c) :
                      e.draw_list_id = d =>
                         /\ e.scroll_layer_id = fixed_layer
                         /\ e.draw_list_group_id \in DOMAIN draw_list_groups
                         /\ draw_list_groups[e.draw_list_group_id].scroll_layer_id
                                = fixed_layer
                         /\ \E i \in 1..Len(draw_list_groups[e.draw_list_group_id]
                                                .draw_list_ids) :
                               draw_list_groups[e.draw_list_group_id].draw_list_ids[i] = d
                         /\ \A i \in 1..Len(draw_lists[d].items) :
                               \E entry \in TreeEntries(fixed_layer) :
                                  /\ entry.draw_list_id = d
                                  /\ entry.item_index = i - 1
                                  /\ entry.draw_list_group_id = e.draw_list_group_id
                /\ \A id \in DOMAIN layers \ {fixed_layer} :
                      \A entry \in TreeEntries(id) : entry.draw_list_id # d

\* A fixed context directly inside the root scroll layer and another inside
\* a scroll layer that is itself inside a fixed context.
C14_Witness ==
    /\ AfterCreate
    /\ last_call.scene = 11
    /\ FixedContexts(CreatedScene) = {2, 9}
    /\ \E e \in LogOf(CreatedScene, 4) : e.scroll_layer_id = Normal(2)
    /\ \E e \in LogOf(CreatedScene, 1) : e.scroll_layer_id = Normal(0)
    /\ \E entry \in TreeEntries(fixed_layer) : entry.draw_list_id = 3
    /\ \E entry \in TreeEntries(fixed_layer) : entry.draw_list_id = 11

\* The contexts that are not pruned, scroll with policy Scrollable and name
\* no scroll layer of their own.
InheritingContexts(scene) ==
    {c \in Live(scene) :
        /\ scene.stacking_context_map[c].scroll_policy = "Scrollable"
        /\ is_none(scene.stacking_context_map[c].scroll_layer_id)}

\* C15: a stacking context with scroll policy Scrollable and no
\* scroll_layer_id inherits its parent's scroll layer: its draw lists are on
\* the same scroll layer as the draw lists of the context around it, whether
\* that context is Scrollable with an id, Scrollable without one, Fixed, or
\* on the other side of an iframe.
C15_InheritsParentScrollLayer ==
    AfterCreate /\ is_some(root) =>
        \A c \in InheritingContexts(CreatedScene) :
            \A p \in ParentContexts(CreatedScene, c) :
                \A e \in LogOf(CreatedScene, c), ep \in LogOf(CreatedScene, p) :
                    e.scroll_layer_id = ep.scroll_layer_id

\* The contexts that are not pruned and ask for a scroll layer of their own.
LayerContexts(scene) ==
    {c \in Live(scene) :
        /\ scene.stacking_context_map[c].scroll_policy = "Scrollable"
        /\ is_some(scene.stacking_context_map[c].scroll_layer_id)}

\* The layers that list id among their children, and how often a layer does.
ChildCount(parent, id) ==
    Cardinality({i \in 1..Len(layers[parent].children) : layers[parent].children[i] = id})

ParentLayers(id) == {parent \in DOMAIN layers : ChildCount(parent, id) > 0}

\* The scroll layers the draw lists of context c were put on.
ActualScrollLayers(scene, c) == {e.scroll_layer_id : e \in LogOf(scene, c)}

RECURSIVE LayersBeneath(_, _)
\* The layers reached from the layers of a set by children lists, in at most
\* n steps.
LayersBeneath(ids, n) ==
    IF n = 0
    THEN ids
    ELSE LayersBeneath(
             ids \cup UNION {{layers[id].children[i] : i \in 1..Len(layers[id].children)} :
                             id \in ids \cap DOMAIN layers},
             n - 1)

\* The layers of the tree rooted at root_scroll_layer_id.
RootTree ==
    IF is_some(root_scroll_layer_id)
    THEN LayersBeneath({unwrap(root_scroll_layer_id)}, Cardinality(DOMAIN layers))
    ELSE {}

\* C16: after create the scroll layers form a tree rooted at
\* root_scroll_layer_id: each Scrollable stacking context with a
\* scroll_layer_id that is not pruned contributes exactly one layer; that
\* layer's id is in the children list of exactly one layer, the actual scroll
\* layer of the context around it, unless it is the root scroll layer, which
\* is in no children list; and every id in a children list is a key of the
\* layer map.
C16_ScrollLayersFormTree ==
    AfterCreate /\ is_some(root) =>
        LET scene == CreatedScene
        IN /\ Cardinality(DOMAIN layers \ {fixed_layer}) = Cardinality(LayerContexts(scene))
           /\ \A c \in LayerContexts(scene) :
                 LET id == unwrap(scene.stacking_context_map[c].scroll_layer_id)
                 IN /\ id \in DOMAIN layers
                    /\ IF IsRootContext(scene, c)
                       THEN /\ root_scroll_layer_id = Some(id)
                            /\ ParentLayers(id) = {}
                       ELSE /\ root_scroll_layer_id # Some(id)
                            /\ \A p \in ParentContexts(scene, c) :
                                  ParentLayers(id) = ActualScrollLayers(scene, p)
                            /\ Cardinality(ParentLayers(id)) = 1
                            /\ \A parent \in ParentLayers(id) : ChildCount(parent, id) = 1
           /\ ScrollLayersOf(scene, LayerContexts(scene)) \subseteq RootTree
           /\ \A parent \in DOMAIN layers :
                 \A i \in 1..Len(layers[parent].children) :
                     layers[parent].children[i] \in DOMAIN layers

\* The part of C16 that does not ask for one root: every layer a context
\* contributes is listed once, by the actual scroll layer of the context
\* around it, and the children lists name layers of the map.
C16_EachLayerHasOneParent ==
    AfterCreate /\ is_some(root) =>
        LET scene == CreatedScene
        IN /\ Cardinality(DOMAIN layers \ {fixed_layer}) = Cardinality(LayerContexts(scene))
           /\ \A c \in LayerContexts(scene) :
                 LET id == unwrap(scene.stacking_context_map[c].scroll_layer_id)
                 IN /\ id \in DOMAIN layers
                    /\ ~IsRootContext(scene, c) =>
                          /\ \A p \in ParentContexts(scene, c) :
                                ParentLayers(id) = ActualScrollLayers(scene, p)
                          /\ \A parent \in ParentLayers(id) : ChildCount(parent, id) = 1
           /\ ScrollLayersOf(scene, LayerContexts(scene)) \subseteq
                 RootTree \cup LayersBeneath({fixed_layer}, Cardinality(DOMAIN layers))

\* The world transform of the layer that lists id among its children, the
\* identity when no layer does.
ParentWorldTransform(id) ==
    IF ParentLayers(id) = {}
    THEN Matrix4_identity
    ELSE layers[CHOOSE parent \in ParentLayers(id) : TRUE].world_transform

\* C17: after build every layer of the layer map, the fixed layer and the
\* layers beneath it included, has the world_transform that build computes
\* top-down: the world_transform of the layer above it (the identity where
\* there is none) times its local_transform, moved by its world_origin and
\* by its scroll_offset.
C17_WorldTransformsRecomputed ==
    last_call.op = "build" /\ panic = "" =>
        \A id \in DOMAIN layers :
            layers[id].world_transform =
                Matrix4_translate(
                    Matrix4_translate(
                        Matrix4_mul(ParentWorldTransform(id), layers[id].local_transform),
                        layers[id].world_origin.x, layers[id].world_origin.y),
                    layers[id].scroll_offset.x, layers[id].scroll_offset.y)

\* The same for the layers of the tree rooted at root_scroll_layer_id only.
C17_RootTreeTransformsRecomputed ==
    last_call.op = "build" /\ panic = "" =>
        \A id \in DOMAIN layers \cap RootTree :
            layers[id].world_transform =
                Matrix4_translate(
                    Matrix4_translate(
                        Matrix4_mul(ParentWorldTransform(id), layers[id].local_transform),
                        layers[id].world_origin.x, layers[id].world_origin.y),
                    layers[id].scroll_offset.x, layers[id].scroll_offset.y)

\* The render targets with at least one child.
ParentTargets == {t \in 1..Len(targets) : targets[t].children # <<>>}

\* C18 as stated: in every reachable state, after create, after build and
\* after reset, every render target whose children list is nonempty has
\* child_texture_id set to a currently allocated texture.
C18_ChildTextureAlwaysAllocated ==
    \A t \in ParentTargets :
        /\ is_some(targets[t].child_texture_id)
        /\ unwrap(targets[t].child_texture_id) \in allocated

\* C18 as the code has it: the texture of a target with children is
\* allocated by build.  After a build every render target whose children
\* list is nonempty has child_texture_id set to a currently allocated
\* texture; after a create it has none yet; and whenever it has one, that
\* texture is currently allocated.
C18_ChildTextureAllocatedByBuild ==
    \A t \in ParentTargets :
        /\ is_some(targets[t].child_texture_id) =>
              unwrap(targets[t].child_texture_id) \in allocated
        /\ last_call.op = "build" /\ panic = "" =>
              is_some(targets[t].child_texture_id)
        /\ last_call.op = "create" => is_none(targets[t].child_texture_id)

\* A build of a frame with a render target that has a child, itself with a
\* child: both hold an allocated texture.
C18_Witness ==
    /\ last_call.op = "build"
    /\ panic = ""
    /\ Cardinality(ParentTargets) = 2
    /\ \A t \in ParentTargets :
          /\ is_some(targets[t].child_texture_id)
          /\ unwrap(targets[t].child_texture_id) \in allocated
    /\ Cardinality(allocated) = 2

\* The render targets that list target t among their children, and how
\* often a target does.
TargetChildCount(parent, t) ==
    Cardinality({i \in 1..Len(targets[parent].children) : targets[parent].children[i] = t})

ParentTargetsOf(t) == {parent \in 1..Len(targets) : TargetChildCount(parent, t) > 0}

RECURSIVE TargetsBeneath(_, _)
\* The targets reached from the targets of a set by children lists, in at
\* most n steps.
TargetsBeneath(ts, n) ==
    IF n = 0
    THEN ts
    ELSE TargetsBeneath(
             ts \cup UNION {{targets[t].children[i] : i \in 1..Len(targets[t].children)} :
                            t \in ts},
             n - 1)

\* The draw-list groups the render items of the targets refer to, in order.
BatchGroupIds ==
    LET batches == SelectSeq(RenderItems(targets, 1), LAMBDA it : it.kind = "DrawListBatch")
    IN [i \in 1..Len(batches) |-> batches[i].draw_list_group_id]

\* The render targets are a tree and the ids of a frame are distinct.
UniqueIds ==
    /\ is_some(root) =>
          /\ ParentTargetsOf(unwrap(root)) = {}
          /\ TargetsBeneath({unwrap(root)}, Len(targets)) = 1..Len(targets)
    /\ \A t \in 1..Len(targets) :
          /\ Cardinality(ParentTargetsOf(t)) <= 1
          /\ \A parent \in ParentTargetsOf(t) : TargetChildCount(parent, t) = 1
    /\ \A t, u \in 1..Len(targets) : t # u => targets[t].id # targets[u].id
    /\ \A g \in DOMAIN draw_list_groups : draw_list_groups[g].id = g
    /\ \A i, j \in 1..Len(BatchGroupIds) : i # j => BatchGroupIds[i] # BatchGroupIds[j]
    /\ \A t, u \in 1..Len(targets) :
          (/\ t # u
           /\ is_some(targets[t].child_texture_id)
           /\ is_some(targets[u].child_texture_id))
          => unwrap(targets[t].child_texture_id) # unwrap(targets[u].child_texture_id)

\* The ids a call hands out were never handed out before.
IdsNotReused ==
    /\ next_render_target_id' >= next_render_target_id
    /\ next_draw_list_group_id' >= next_draw_list_group_id
    /\ \A t \in 1..Len(targets') : targets'[t].id < next_render_target_id'
    /\ \A g \in DOMAIN draw_list_groups' : g < next_draw_list_group_id'
    /\ last_call'.op = "create" =>
          /\ \A t \in 1..Len(targets') : targets'[t].id >= next_render_target_id
          /\ \A g \in DOMAIN draw_list_groups' : g >= next_draw_list_group_id

\* C19: the render targets of a frame form a tree in which each target has at
\* most one parent; the render-target ids of the tree are pairwise distinct,
\* the draw-list-group ids are pairwise distinct, and the textures held by
\* different targets are pairwise distinct; and since reset leaves the id
\* counters alone, a later frame never gets a render-target id or a group id
\* that an earlier frame had.
C19_TargetsFormTreeWithUniqueIds ==
    [][UniqueIds' /\ IdsNotReused]_vars

\* A second frame with three render targets and several groups, created
\* after a frame that had used up ids, and built: two textures are held.
C19_Witness ==
    /\ creates = 2
    /\ last_call.op = "build"
    /\ Len(targets) = 3
    /\ Cardinality(DOMAIN draw_list_groups) >= 3
    /\ Cardinality(TreeTextures) = 2
    /\ \A t \in 1..Len(targets) : targets[t].id >= 3

RECURSIVE LayerCommands(_)
RECURSIVE ChildLayerCommands(_, _)
\* The command sequences of a DrawLayer and of the DrawLayers beneath it, the
\* layer first, then its child layers in order.
LayerCommands(layer) ==
    <<layer.commands>> \o ChildLayerCommands(layer.child_layers, 1)

ChildLayerCommands(child_layers, i) ==
    IF i > Len(child_layers)
    THEN <<>>
    ELSE LayerCommands(child_layers[i]) \o ChildLayerCommands(child_layers, i + 1)

\* A build that follows a build with no other call in between.
SecondBuild ==
    /\ last_call.op = "build"
    /\ last_call'.op = "build"
    /\ panic' = ""

\* C20: a build called right after a build, with no create, reset or scroll
\* in between, returns a RendererFrame with the same pipeline_epoch_map and
\* the same command sequence in every DrawLayer of the tree, and enqueues
\* no further BatchUpdate::Create.
C20_SecondBuildRepeatsFirst ==
    [][SecondBuild =>
          /\ is_some(renderer_frame) /\ is_some(renderer_frame')
          /\ unwrap(renderer_frame').pipeline_epoch_map =
                unwrap(renderer_frame).pipeline_epoch_map
          /\ LayerCommands(unwrap(renderer_frame').root) =
                LayerCommands(unwrap(renderer_frame).root)
          /\ Len(pending_updates') >= Len(pending_updates)
          /\ SubSeq(pending_updates', 1, Len(pending_updates)) = pending_updates
          /\ \A i \in (Len(pending_updates) + 1)..Len(pending_updates') :
                pending_updates'[i].op # "Create"]_vars

\* The second of two builds in a row of a frame with three render targets:
\* the first build enqueued a Create, and the frame returned has composite
\* and batch commands with draw calls.
C20_Witness ==
    /\ last_call.op = "build"
    /\ last_call.again
    /\ panic = ""
    /\ \E i \in 1..Len(pending_updates) : pending_updates[i].op = "Create"
    /\ Len(LayerCommands(unwrap(renderer_frame).root)) = 3
    /\ \E l \in 1..3 :
          \E i \in 1..Len(LayerCommands(unwrap(renderer_frame).root)[l]) :
              LayerCommands(unwrap(renderer_frame).root)[l][i].kind = "CompositeBatch"
    /\ \E l \in 1..3 :
          \E i \in 1..Len(LayerCommands(unwrap(renderer_frame).root)[l]) :
              /\ LayerCommands(unwrap(renderer_frame).root)[l][i].kind = "Batch"
              /\ LayerCommands(unwrap(renderer_frame).root)[l][i].draw_calls # <<>>

\* Command c is the translation of render item it: a Clear of a Clear, a
\* CompositeBatch of a CompositeBatch with the same operation and jobs, a
\* Batch with one palette entry per draw list of the group of a
\* DrawListBatch, each entry's offset that of the draw list's stacking
\* context.
IsTranslationOf(c, it) ==
    CASE it.kind = "Clear" -> c.kind = "Clear" /\ c.info = it.info
      [] it.kind = "CompositeBatch" ->
            /\ c.kind = "CompositeBatch"
            /\ c.info.operation = it.info.operation
            /\ c.info.jobs = it.info.jobs
      [] OTHER ->
            /\ c.kind = "Batch"
            /\ it.draw_list_group_id \in DOMAIN draw_list_groups
            /\ LET ids == draw_list_groups[it.draw_list_group_id].draw_list_ids
               IN /\ Len(c.matrix_palette) = Len(ids)
                  /\ Len(c.offset_palette) = Len(ids)
                  /\ \A i \in 1..Len(ids) :
                        c.offset_palette[i] =
                            stacking_context_info[
                                unwrap(draw_lists[ids[i]].stacking_context_index) + 1]
                                .offset_from_layer

RECURSIVE MirrorsTarget(_, _)
\* DrawLayer layer is the collection of render target t: command for item,
\* child layer for child, all the way down.
MirrorsTarget(layer, t) ==
    /\ Len(layer.commands) = Len(targets[t].items)
    /\ \A i \in 1..Len(targets[t].items) :
          IsTranslationOf(layer.commands[i], targets[t].items[i])
    /\ layer.layer_size = targets[t].size
    /\ Len(layer.child_layers) = Len(targets[t].children)
    /\ \A i \in 1..Len(targets[t].children) :
          MirrorsTarget(layer.child_layers[i], targets[t].children[i])

\* C21: collection preserves flatten order: for every render target the
\* commands of its DrawLayer are as many as the target's items, command i is
\* the translation of item i, and the child layers are in the order of the
\* target's children.
C21_CollectionPreservesOrder ==
    (/\ last_call.op = "build"
     /\ panic = ""
     /\ is_some(root)) =>
        /\ is_some(renderer_frame)
        /\ MirrorsTarget(unwrap(renderer_frame).root, unwrap(root))

\* A build of a frame whose root target holds a batch and a composite batch
\* with two jobs, and has two children of different sizes.
C21_Witness ==
    /\ last_call.op = "build"
    /\ panic = ""
    /\ is_some(root)
    /\ Len(unwrap(renderer_frame).root.child_layers) = 2
    /\ unwrap(renderer_frame).root.commands[1].kind = "Batch"
    /\ \E i \in 1..Len(unwrap(renderer_frame).root.commands) :
          /\ unwrap(renderer_frame).root.commands[i].kind = "CompositeBatch"
          /\ Len(unwrap(renderer_frame).root.commands[i].info.jobs) = 2
    /\ unwrap(renderer_frame).root.child_layers[1].layer_size
          # unwrap(renderer_frame).root.child_layers[2].layer_size

\* The nodes of the layers' trees, as pairs of a layer id and a position, and
\* those among them that hold a compiled node.
TreeNodes ==
    {p \in (DOMAIN layers) \X (1..2) : p[2] <= Len(layers[p[1]].aabb_tree.nodes)}

CompiledNodes ==
    {p \in TreeNodes : is_some(layers[p[1]].aabb_tree.nodes[p[2]].compiled_node)}

CompiledNodeOf(p) == unwrap(layers[p[1]].aabb_tree.nodes[p[2]].compiled_node)

\* The ids of the Create updates among updates[from..], in order.
CreatedIds(updates, from) ==
    LET creates_only == SelectSeq(SubSeq(updates, from, Len(updates)),
                                  LAMBDA u : u.op = "Create")
    IN [i \in 1..Len(creates_only) |-> creates_only[i].id]

\* Between calls a compiled node has given its buffer away and carries the
\* buffer's id; no two nodes carry the same id and no id was announced twice.
BuffersTakenOnce ==
    /\ \A p \in CompiledNodes :
          /\ is_none(CompiledNodeOf(p).vertex_buffer)
          /\ is_some(CompiledNodeOf(p).vertex_buffer_id)
    /\ \A p, q \in CompiledNodes :
          p # q => CompiledNodeOf(p).vertex_buffer_id # CompiledNodeOf(q).vertex_buffer_id
    /\ \A i, j \in 1..Len(CreatedIds(pending_updates, 1)) :
          i # j => CreatedIds(pending_updates, 1)[i] # CreatedIds(pending_updates, 1)[j]

\* A build leaves the id of every node that was compiled before it as it
\* was, announces no Create for it, and announces exactly one Create for
\* each node it compiles.
BuildCreatesOncePerNode ==
    (last_call'.op = "build" /\ panic' = "") =>
        /\ CompiledNodes \subseteq CompiledNodes'
        /\ \A p \in CompiledNodes :
              /\ CompiledNodeOf(p)'.vertex_buffer_id = CompiledNodeOf(p).vertex_buffer_id
              /\ \A i \in 1..Len(CreatedIds(pending_updates', Len(pending_updates) + 1)) :
                    Some(CreatedIds(pending_updates', Len(pending_updates) + 1)[i])
                        # CompiledNodeOf(p).vertex_buffer_id
        /\ \A p \in CompiledNodes' \ CompiledNodes :
              Cardinality({i \in 1..Len(CreatedIds(pending_updates', Len(pending_updates) + 1)) :
                              Some(CreatedIds(pending_updates', Len(pending_updates) + 1)[i])
                                  = CompiledNodeOf(p)'.vertex_buffer_id}) = 1
        /\ Len(CreatedIds(pending_updates', Len(pending_updates) + 1)) =
              Cardinality(CompiledNodes' \ CompiledNodes)

\* C22: over any sequence of build calls on one created frame each compiled
\* node contributes at most one BatchUpdate::Create to pending_updates: the
\* batch-cache update takes the node's buffer, enqueues one Create with the
\* buffer's id and records the id on the node; a later build finds no
\* buffer to take, so vertex_buffer_id is never set twice.
C22_OneCreatePerCompiledNode ==
    [][BuffersTakenOnce' /\ BuildCreatesOncePerNode]_vars

\* A build that compiles one node and announces it, while another node of
\* the same layer, compiled and announced by an earlier build, keeps its id.
C22_Witness ==
    /\ last_call.op = "build"
    /\ panic = ""
    /\ Len(CreatedIds(last_call.enqueued, 1)) = 1
    /\ \E p, q \in CompiledNodes :
          /\ p[1] = q[1]
          /\ p # q
          /\ CompiledNodeOf(q).vertex_buffer_id = Some(CreatedIds(last_call.enqueued, 1)[1])
          /\ \E i \in 1..(Len(pending_updates) - Len(last_call.enqueued)) :
                /\ pending_updates[i].op = "Create"
                /\ CompiledNodeOf(p).vertex_buffer_id = Some(pending_updates[i].id)

\* ------------------------------------------------------------------------ C23

\* A build is in one of its two parallel phases, between fork and join.
InParallelPhase == pool.phase \in {"resource", "compile"}

\* No node was given to two tasks of the phase in progress.
GivenOnce ==
    \A i, j \in 1..Len(pool.given) : i # j => pool.given[i] # pool.given[j]

\* The nodes a step writes.
WrittenNodes ==
    {p \in TreeNodes :
        layers'[p[1]].aabb_tree.nodes[p[2]] # layers[p[1]].aabb_tree.nodes[p[2]]}

\* In a parallel phase a step writes no layer but in its nodes, and a node only
\* as the one task that was given it and ends with the step.
TaskWritesOwnNode ==
    InParallelPhase =>
        /\ DOMAIN layers' = DOMAIN layers
        /\ \A id \in DOMAIN layers :
              /\ Len(layers'[id].aabb_tree.nodes) = Len(layers[id].aabb_tree.nodes)
              /\ [layers'[id] EXCEPT !.aabb_tree.nodes = <<>>]
                     = [layers[id] EXCEPT !.aabb_tree.nodes = <<>>]
        /\ \A p \in WrittenNodes :
              /\ p \in pool.pending
              /\ pool'.pending = pool.pending \ {p}

\* In a parallel phase no step writes stacking_context_info, draw_list_groups
\* or the resource cache.
SharedStateReadOnly ==
    InParallelPhase =>
        UNCHANGED <<stacking_context_info, draw_list_groups, draw_lists, allocated,
                    double_free, resource_lists>>

\* C23: in the resource-enumeration and compile phases of build every task has
\* one AABB-tree node and no node is given to two tasks of the phase, a task
\* writes only its own node, and nothing writes stacking_context_info,
\* draw_list_groups or the resource cache between fork and join, whatever the
\* order the tasks run in.
C23_TasksOwnTheirNodes ==
    [][GivenOnce' /\ TaskWritesOwnNode /\ SharedStateReadOnly]_vars

\* Tasks of the compile phase on nodes of two layers, one of them ended and two
\* still to run.
C23_Witness ==
    /\ pool.phase = "compile"
    /\ Len(pool.given) > Cardinality(pool.pending)
    /\ \E p, q \in pool.pending :
          /\ p[1] # q[1]
          /\ is_none(layers[p[1]].aabb_tree.nodes[p[2]].compiled_node)
          /\ is_none(layers[q[1]].aabb_tree.nodes[q[2]].compiled_node)
    /\ \E p \in CompiledNodes : is_some(CompiledNodeOf(p).vertex_buffer)

\* ------------------------------------------------------------------------ C24

\* A step that changes the phase goes to the next phase of build, from idle to
\* the first and from the last to idle.
PhaseOrder ==
    pool'.phase # pool.phase =>
        \/ pool.phase = "idle" /\ pool'.phase = BuildPhases[1]
        \/ pool.phase = BuildPhases[Len(BuildPhases)] /\ pool'.phase = "idle"
        \/ \E n \in 1..(Len(BuildPhases) - 1) :
              pool.phase = BuildPhases[n] /\ pool'.phase = BuildPhases[n + 1]

\* A parallel phase is left with every scope opened and every task ended.
JoinedBeforeNext ==
    (InParallelPhase /\ pool'.phase # pool.phase) =>
        pool.pending = {} /\ pool.scopes = <<>>

\* When collection starts every visible node has a resource list and a
\* compiled node.
CollectReady ==
    pool.phase = "collect" =>
        \A p \in visible_nodes(layers) :
            /\ is_some(layers[p[1]].aabb_tree.nodes[p[2]].resource_list)
            /\ is_some(layers[p[1]].aabb_tree.nodes[p[2]].compiled_node)

\* No RendererFrame exists while a build is in progress, and one appears only
\* with the step that ends the last phase.
NoPartialFrame ==
    /\ pool.phase # "idle" => is_none(renderer_frame)
    /\ (is_some(renderer_frame') /\ renderer_frame' # renderer_frame) =>
          pool.phase = BuildPhases[Len(BuildPhases)] /\ pool'.phase = "idle"

\* C24: build runs cull, resource enumeration, texture-cache intake, glyph
\* raster, compile, batch-cache update, transform update and collect in this
\* order, a parallel phase ends only when all its tasks have ended, every
\* visible node has a resource list and a compiled node when collection starts,
\* and the RendererFrame is returned only after the last phase.
C24_PhasesInOrder ==
    [][PhaseOrder /\ JoinedBeforeNext /\ CollectReady' /\ NoPartialFrame]_vars

\* Collection is about to start with visible nodes in two layers and a node
\* that cull left invisible.
C24_Witness ==
    /\ pool.phase = "collect"
    /\ is_none(renderer_frame)
    /\ \E p, q \in visible_nodes(layers) : p[1] # q[1]
    /\ \E r \in TreeNodes : ~layers[r[1]].aabb_tree.nodes[r[2]].is_visible

\* ------------------------------------------------------------------------ C25

\* The scenes that break a structural rule: no scroll layer on the root, a
\* scroll layer on a Fixed context, a scroll layer asked for twice.
RuleBreakingScenes == {13, 14, 15}

\* C25: create of a scene whose root stacking context has no scroll_layer_id,
\* or with a Fixed context that carries a scroll_layer_id, or with a Scrollable
\* context whose scroll_layer_id is a key of the layer map already, aborts.
C25_RuleBreakingScenesAbort ==
    (last_call.op = "create" /\ last_call.scene \in RuleBreakingScenes) => panic # ""

\* With debug_assert! checked each of the three aborts, and the root without
\* a scroll layer aborts in every build.
C25_DebugBuildAborts ==
    (last_call.op = "create" /\ last_call.scene \in RuleBreakingScenes
     /\ (debug_assertions \/ last_call.scene = 13))
        => panic # ""

\* A frame built from a scene that asked for the root's scroll layer twice.
C25_FrameOfDuplicateLayer ==
    /\ last_call.op = "build"
    /\ panic = ""
    /\ is_some(renderer_frame)
    /\ contains_key(layers, Normal(0))
    /\ layers[Normal(0)].layer_size = PxSize(5, 3)

\* ------------------------------------------------------------------------ C26

\* The scenes with a missing reference for the root: the root pipeline (16) or
\* its root stacking context (17).
MissingRootScenes == {16, 17}

\* C26: create of a scene whose root_pipeline_id is not a key of the pipeline
\* map, or whose root pipeline's root_stacking_context_id is not a key of the
\* stacking-context map, aborts.
C26_MissingRootAborts ==
    (last_call.op = "create" /\ last_call.scene \in MissingRootScenes) => panic # ""

\* create with a missing root stacking context aborts.
C26_MissingRootContextAborts ==
    (last_call.op = "create" /\ last_call.scene = 17) => panic # ""

\* create with a missing root pipeline returns with the frame as it was: no
\* reset, no layer, no render target.
C26_MissingPipelineIsSilent ==
    [][(last_call'.op = "create" /\ last_call'.scene = 16) =>
          /\ panic' = ""
          /\ layers' = layers
          /\ targets' = targets
          /\ root' = root
          /\ draw_list_groups' = draw_list_groups
          /\ pipeline_epoch_map' = pipeline_epoch_map]_vars

\* create with a missing root pipeline returned on a frame that holds the
\* layers of the scene before.
C26_StaleFrame ==
    /\ last_call.op = "create"
    /\ last_call.scene = 16
    /\ panic = ""
    /\ layers # EmptyMap

\* ------------------------------------------------------------------------ C27

\* The iframe items of the contexts of a set.
IframeItems(scene, contexts) ==
    UNION {{ContextItems(scene, c)[i].specific :
               i \in {j \in 1..Len(ContextItems(scene, c)) :
                         ContextItems(scene, c)[j].specific.kind = "Iframe"}} :
           c \in contexts}

\* The scene without the iframe items whose pipeline it does not have.
WithoutMissingIframes(scene) ==
    [scene EXCEPT !.display_list_map =
        [d \in DOMAIN scene.display_list_map |->
            [items |->
                SelectSeq(scene.display_list_map[d].items,
                          LAMBDA item :
                              ~(/\ item.specific.kind = "Iframe"
                                /\ ~contains_key(scene.pipeline_map, item.specific.id)))]]]

\* The iframe items of live contexts whose pipeline the scene does not have.
MissingIframesOf(scene) ==
    {iframe \in IframeItems(scene, Live(scene)) :
        ~contains_key(scene.pipeline_map, iframe.id)}

\* A create gives the frame it gives for the scene without the iframes of
\* missing pipelines, and the caller's map has the size of each of them.
MissingIframeSkipped ==
    creates' = creates + 1 =>
        LET scene == Scenes[last_call'.scene]
            other == Frame_create(self, WithoutMissingIframes(scene),
                                  last_call'.viewport_size)
        IN /\ panic' = other.panic
           /\ layers' = other.layers
           /\ targets' = other.targets
           /\ root' = other.root
           /\ stacking_context_info' = other.stacking_context_info
           /\ draw_list_groups' = other.draw_list_groups
           /\ draw_lists' = other.draw_lists
           /\ pipeline_epoch_map' = other.pipeline_epoch_map
           /\ add_log' = other.add_log
           /\ next_render_target_id' = other.next_render_target_id
           /\ next_draw_list_group_id' = other.next_draw_list_group_id
           /\ panic' = "" =>
                 \A iframe \in IframeItems(scene, Live(scene)) :
                     /\ contains_key(pipeline_sizes', iframe.id)
                     /\ pipeline_sizes'[iframe.id] = iframe.bounds.size

\* After create the root context of an iframe's pipeline has the clip MAX_RECT
\* leaves of its overflow, and a scroll layer it makes has the size of the
\* iframe's bounds as its viewport.
IframeStartsAfresh ==
    AfterCreate =>
        \A iframe \in IframeItems(CreatedScene, Live(CreatedScene)) :
            contains_key(CreatedScene.pipeline_map, iframe.id) =>
                LET c == CreatedScene.pipeline_map[iframe.id].root_stacking_context_id
                    sc == CreatedScene.stacking_context_map[c]
                    clip == Rect_intersection(
                                Rect_translate(MAX_RECT, Point2D_neg(sc.bounds.origin)),
                                sc.overflow)
                IN (is_some(clip) /\ ~HasNoItems(CreatedScene, c)) =>
                      /\ Flattened(CreatedScene, c)
                      /\ \A e \in LogOf(CreatedScene, c) :
                            stacking_context_info[e.stacking_context_index + 1].local_clip_rect
                                = unwrap(clip)
                      /\ c \in LayerContexts(CreatedScene) =>
                            layers[unwrap(sc.scroll_layer_id)].viewport_size
                                = iframe.bounds.size

\* C27: an iframe whose pipeline id is not a key of the pipeline map is
\* skipped: flattening goes on with the next item and the iframe adds no layer,
\* render target, render item, group, stacking-context info or pipeline epoch,
\* while its size is recorded in pipeline_sizes. An iframe whose pipeline is in
\* the map is flattened with the clip rect MAX_RECT and with the size of its
\* bounds as the viewport size.
C27_MissingIframeSkipped ==
    /\ [][MissingIframeSkipped]_vars
    /\ []IframeStartsAfresh

\* A scene was created that holds an iframe of a missing pipeline between two
\* draw lists and an iframe whose root context lies outside the root's clip.
C27_Witness ==
    /\ AfterCreate
    /\ MissingIframesOf(CreatedScene) # {}
    /\ \E e \in {add_log[i] : i \in 1..Len(add_log)} : e.draw_list_id = 3
    /\ \E iframe \in IframeItems(CreatedScene, Live(CreatedScene)) :
          /\ contains_key(CreatedScene.pipeline_map, iframe.id)
          /\ contains_key(pipeline_epoch_map, iframe.id)
          /\ LET c == CreatedScene.pipeline_map[iframe.id].root_stacking_context_id
             IN /\ Flattened(CreatedScene, c)
                /\ c \in LayerContexts(CreatedScene)
                /\ layers[unwrap(CreatedScene.stacking_context_map[c].scroll_layer_id)]
                       .viewport_size # layers[Normal(0)].viewport_size

\* ------------------------------------------------------------------------ C28

\* A composition_operations call has returned.
Composed == is_some(composition) /\ is_some(unwrap(composition).operations)

\* The stacking context of the call and the operations it returned.
ComposedContext == unwrap(composition).stacking_context

ComposedOperations == unwrap(unwrap(composition).operations)

\* The scene of the stacking context was created.
EffectsCreated == is_some(composition) /\ last_call.op = "create" /\ panic = ""

\* The composite items of a render target.
CompositeItems(t) ==
    {i \in 1..Len(targets[t].items) : targets[t].items[i].kind = "CompositeBatch"}

\* C28: composition_operations gives a MixBlend operation exactly when
\* mix_blend_mode is not Normal, and gives it first, before every filter
\* operation; with Normal and no filters the list is empty, and the stacking
\* context then gets no offscreen render target.
C28_MixBlendFirst ==
    /\ Composed =>
          /\ (\E i \in 1..Len(ComposedOperations) : ComposedOperations[i].op = "MixBlend")
                <=> ComposedContext.mix_blend_mode # "Normal"
          /\ \A i \in 1..Len(ComposedOperations) :
                ComposedOperations[i].op = "MixBlend" =>
                    /\ i = 1
                    /\ ComposedOperations[i].name = ComposedContext.mix_blend_mode
          /\ (ComposedContext.mix_blend_mode = "Normal" /\ ComposedContext.filters = <<>>)
                => ComposedOperations = <<>>
    /\ (/\ EffectsCreated
        /\ unwrap(composition).stacking_context.mix_blend_mode = "Normal"
        /\ unwrap(composition).stacking_context.filters = <<>>)
          => /\ Len(targets) = 1
             /\ targets[1].children = <<>>
             /\ CompositeItems(1) = {}
             /\ {add_log[i].render_target_id : i \in 1..Len(add_log)} = {targets[1].id}

\* A context with a blend mode and filters, a blur first, was composed and its
\* scene created with an offscreen target.
C28_Witness ==
    /\ Composed
    /\ ComposedContext.mix_blend_mode # "Normal"
    /\ Len(ComposedContext.filters) >= 2
    /\ ComposedContext.filters[1].kind = "Blur"
    /\ ComposedOperations[1].op = "MixBlend"
    /\ EffectsCreated
    /\ Len(targets) = 2

\* A context with mode Normal and no filters was composed and its scene
\* created.
C28_WitnessPlain ==
    /\ Composed
    /\ ComposedContext.mix_blend_mode = "Normal"
    /\ ComposedContext.filters = <<>>
    /\ EffectsCreated
    /\ Len(add_log) = 2

\* ------------------------------------------------------------------------ C29

\* The number of operations a filter stands for.
PassesOf(filter) == IF filter.kind = "Blur" THEN 2 ELSE 1

RECURSIVE PassesBefore(_, _)
\* The number of operations the filters before filters[i] stand for.
PassesBefore(filters, i) ==
    IF i <= 1
    THEN 0
    ELSE PassesBefore(filters, i - 1) + PassesOf(filters[i - 1])

\* The position before the first operation of filters[i] of the composed context.
OperationsBefore(i) ==
    (IF ComposedContext.mix_blend_mode # "Normal" THEN 1 ELSE 0)
    + PassesBefore(ComposedContext.filters, i)

\* C29: composition_operations keeps the order of the filters: a Blur(r) gives
\* two operations in a row, Blur(r, Horizontal) then Blur(r, Vertical), every
\* other filter gives one operation, and the list is as long as one for a
\* blend mode other than Normal, two for each Blur and one for each other filter.
C29_FiltersInOrder ==
    Composed =>
        /\ Len(ComposedOperations) = OperationsBefore(Len(ComposedContext.filters) + 1)
        /\ \A i \in 1..Len(ComposedContext.filters) :
              LET filter == ComposedContext.filters[i]
                  first == ComposedOperations[OperationsBefore(i) + 1]
              IN /\ first.op = "Filter"
                 /\ first.name = filter.kind
                 /\ filter.kind = "Blur" =>
                       /\ first = [op |-> "Filter", name |-> "Blur", arg |-> filter.arg,
                                   axis |-> "Horizontal"]
                       /\ ComposedOperations[OperationsBefore(i) + 2]
                             = [op |-> "Filter", name |-> "Blur", arg |-> filter.arg,
                                axis |-> "Vertical"]
                 /\ filter.kind # "Blur" => first.axis = "None"

\* Two blurs around another filter, behind a blend mode, were composed.
C29_Witness ==
    /\ Composed
    /\ ComposedContext.mix_blend_mode # "Normal"
    /\ Len(ComposedContext.filters) = 3
    /\ ComposedContext.filters[1].kind = "Blur"
    /\ ComposedContext.filters[2].kind = "HueRotate"
    /\ ComposedContext.filters[3].kind = "Blur"
    /\ Len(ComposedOperations) = 6

\* ------------------------------------------------------------------------ C30

\* The scroll layer ids a hit test is asked for: those of the layer map and
\* one that is not a key of it.
HitTestIds == DOMAIN layers \cup {Normal(9)}

\* The hit test of the frame's layers from layer id.
HitFrom(cursor, id) == get_scroll_layer(layers, cursor, id, Matrix4_identity)

\* The transform the children of layer id are tested with.
ChildTransform(id) == Matrix4_mul(Matrix4_identity, layers[id].local_transform)

\* The children of layer id whose hit test gives a layer.
HittingChildren(cursor, id) ==
    {i \in 1..Len(layers[id].children) :
        is_some(get_scroll_layer(layers, cursor, layers[id].children[i], ChildTransform(id)))}

\* The cursor, taken to the space of layer id, lies in the layer's rect.
OwnRectHit(cursor, id) ==
    ray_intersects_rect(transform_point(Matrix4_invert(ChildTransform(id)), cursor),
                        Rect(layers[id].world_origin, layers[id].viewport_size))

\* C30: get_scroll_layer gives the result of the first child, in children
\* order, whose own search hits, and tests the layer's own rect only when no
\* child hits; it never gives the fixed layer's id, and gives None for a scroll
\* layer id that is not a key of the layer map.
C30_ChildrenBeforeLayer ==
    \A cursor \in Cursors, id \in HitTestIds :
        /\ HitFrom(cursor, id) # Some(ScrollLayerId_Fixed)
        /\ ~contains_key(layers, id) => is_none(HitFrom(cursor, id))
        /\ contains_key(layers, id) =>
              IF HittingChildren(cursor, id) # {}
              THEN LET first == CHOOSE i \in HittingChildren(cursor, id) :
                                   \A j \in HittingChildren(cursor, id) : i <= j
                   IN HitFrom(cursor, id)
                         = get_scroll_layer(layers, cursor, layers[id].children[first],
                                            ChildTransform(id))
              ELSE HitFrom(cursor, id)
                      = IF id # ScrollLayerId_Fixed /\ OwnRectHit(cursor, id)
                        THEN Some(id)
                        ELSE None

\* scroll hit the second child of the root scroll layer, whose first child
\* the cursor misses and whose third child it hits too, at a cursor outside the
\* root layer's own rect; at another cursor no child is hit and the root layer
\* itself is.
C30_Witness ==
    /\ last_call.op = "scroll"
    /\ is_some(root_scroll_layer_id)
    /\ Len(layers[unwrap(root_scroll_layer_id)].children) = 3
    /\ last_call.hit = Some(layers[unwrap(root_scroll_layer_id)].children[2])
    /\ HittingChildren(last_call.cursor, unwrap(root_scroll_layer_id)) = {2, 3}
    /\ ~OwnRectHit(last_call.cursor, unwrap(root_scroll_layer_id))
    /\ \E cursor \in Cursors :
          /\ HittingChildren(cursor, unwrap(root_scroll_layer_id)) = {}
          /\ HitFrom(cursor, unwrap(root_scroll_layer_id)) = root_scroll_layer_id

\* The search from the fixed layer gives the layer beneath it.
C30_WitnessFixed ==
    /\ contains_key(layers, ScrollLayerId_Fixed)
    /\ \E cursor \in Cursors : is_some(HitFrom(cursor, ScrollLayerId_Fixed))

\* ------------------------------------------------------------------------ C31

\* A scene of one pipeline, without a background draw list, whose root
\* stacking context is a scroll layer with a non-empty overflow, no
\* composition operations and one display list of one draw-list item.
IsSingleDrawListScene(scene) ==
    /\ is_some(scene.root_pipeline_id)
    /\ DOMAIN scene.pipeline_map = {unwrap(scene.root_pipeline_id)}
    /\ LET pipeline == scene.pipeline_map[unwrap(scene.root_pipeline_id)]
       IN /\ is_none(pipeline.background_draw_list)
          /\ contains_key(scene.stacking_context_map, pipeline.root_stacking_context_id)
          /\ LET sc == scene.stacking_context_map[pipeline.root_stacking_context_id]
             IN /\ sc.scroll_policy = "Scrollable"
                /\ is_some(sc.scroll_layer_id)
                /\ sc.overflow.size.width > 0
                /\ sc.overflow.size.height > 0
                /\ sc.mix_blend_mode = "Normal"
                /\ sc.filters = <<>>
                /\ Len(sc.display_lists) = 1
                /\ Len(scene.display_list_map[sc.display_lists[1]].items) = 1
                /\ scene.display_list_map[sc.display_lists[1]].items[1].specific.kind
                      = "DrawList"

\* The root stacking context of a scene and its one draw list.
RootContextOf(scene) ==
    scene.stacking_context_map[
        scene.pipeline_map[unwrap(scene.root_pipeline_id)].root_stacking_context_id]

SingleDrawListOf(scene) ==
    scene.display_list_map[RootContextOf(scene).display_lists[1]].items[1].specific.id

\* C31: create of a scene with one pipeline whose root stacking context is
\* scroll layer L0, with a non-empty overflow, one draw list and no composition
\* operations or background, gives two layers (L0 and the fixed layer), one
\* draw-list group that holds that draw list with scroll layer L0 and the root
\* target's id, a root target without children whose items are the one
\* DrawListBatch of that group, and one stacking-context info with
\* offset_from_layer (0,0).
C31_SingleDrawListFrame ==
    (AfterCreate /\ IsSingleDrawListScene(CreatedScene)) =>
        LET L0 == unwrap(RootContextOf(CreatedScene).scroll_layer_id)
        IN /\ DOMAIN layers = {L0, fixed_layer}
           /\ L0 # fixed_layer
           /\ root_scroll_layer_id = Some(L0)
           /\ is_none(current_draw_list_group)
           /\ Cardinality(DOMAIN draw_list_groups) = 1
           /\ \A g \in DOMAIN draw_list_groups :
                 /\ draw_list_groups[g].id = g
                 /\ draw_list_groups[g].draw_list_ids = <<SingleDrawListOf(CreatedScene)>>
                 /\ draw_list_groups[g].scroll_layer_id = L0
                 /\ draw_list_groups[g].render_target_id = targets[unwrap(root)].id
                 /\ targets[unwrap(root)].items = <<FrameRenderItem_DrawListBatch(g)>>
           /\ is_some(root)
           /\ Len(targets) = 1
           /\ targets[unwrap(root)].children = <<>>
           /\ Len(stacking_context_info) = 1
           /\ stacking_context_info[1].offset_from_layer = Point2D_zero

\* Such a scene was created on a frame that held another scene before, with
\* a layer wider than the viewport.
C31_Witness ==
    /\ AfterCreate
    /\ IsSingleDrawListScene(CreatedScene)
    /\ creates = 2
    /\ \E id \in DOMAIN layers : layers[id].layer_size.width > layers[id].viewport_size.width
    /\ Cardinality(DOMAIN draw_list_groups) = 1

\* ---------------------------------------------------------------------------
\* C32
\* ---------------------------------------------------------------------------

\* The items of the target pushed to, and the calls made on it.
PushedItems == unwrap(pushed).target.items

PushedCalls == unwrap(pushed).calls

\* The call the step makes.
PushedCall == unwrap(pushed').calls[Len(unwrap(pushed').calls)]

\* The conditions under which a composite starts a new item.
StartsNewItem(items, op) ==
    \/ needs_framebuffer(op)
    \/ items = <<>>
    \/ items[Len(items)].kind # "CompositeBatch"
    \/ items[Len(items)].info.operation # op

\* A push_composite step appends a new item with the one job exactly when the
\* operation needs the framebuffer, the last item is no composite or it has another
\* operation; otherwise the job joins the last item and no item is added.
PushRule ==
    (is_some(pushed) /\ is_some(pushed') /\ PushedCall.kind = "CompositeBatch") =>
        LET items == PushedItems
            after == unwrap(pushed').target.items
            n == Len(items)
            job == [rect |-> PxRect(0, 0, 2, 2),
                    render_target_index |-> PushedCall.render_target_index]
        IN IF StartsNewItem(items, PushedCall.operation)
           THEN after = Append(items,
                               FrameRenderItem_CompositeBatch(
                                   [operation |-> PushedCall.operation,
                                    jobs |-> <<job>>]))
           ELSE /\ Len(after) = n
                /\ SubSeq(after, 1, n - 1) = SubSeq(items, 1, n - 1)
                /\ after[n].kind = "CompositeBatch"
                /\ after[n].info.operation = items[n].info.operation
                /\ after[n].info.jobs = Append(items[n].info.jobs, job)

\* The composite calls, in the order made.
CompositeCalls ==
    SelectSeq(PushedCalls, LAMBDA c : c.kind = "CompositeBatch")

\* The kinds of the items with a run of equal kinds and operations taken once,
\* against the kinds of the calls: a composite item never spans a Clear or a
\* DrawListBatch call.
RECURSIVE ItemsOfCalls(_, _)
ItemsOfCalls(calls, i) ==
    IF i > Len(calls)
    THEN <<>>
    ELSE LET c == calls[i]
             merges ==
                 /\ c.kind = "CompositeBatch"
                 /\ i > 1
                 /\ calls[i - 1].kind = "CompositeBatch"
                 /\ calls[i - 1].operation = c.operation
                 /\ ~needs_framebuffer(c.operation)
         IN (IF merges THEN <<>> ELSE <<c.kind>>) \o ItemsOfCalls(calls, i + 1)

\* Every composite item holds a job, the jobs in item order are the composite
\* calls in call order, each under the operation it was pushed with, and the items
\* are the calls with only adjacent equal composites merged.
PushInvariant ==
    is_some(pushed) =>
        /\ \A i \in 1..Len(PushedItems) :
              PushedItems[i].kind = "CompositeBatch" =>
                  Len(PushedItems[i].info.jobs) >= 1
        /\ JobsOf(PushedItems, 1) =
               [k \in 1..Len(CompositeCalls) |->
                   [operation |-> CompositeCalls[k].operation,
                    render_target_index |-> CompositeCalls[k].render_target_index]]
        /\ Len(JobsOf(PushedItems, 1)) = Len(CompositeCalls)
        /\ [i \in 1..Len(PushedItems) |-> PushedItems[i].kind] =
               ItemsOfCalls(PushedCalls, 1)

\* C32: push_composite starts a new CompositeBatch item exactly when the operation
\* needs the framebuffer, the target's last item is not a CompositeBatch, or the
\* last CompositeBatch has another operation, and otherwise appends the job to the
\* last item; so no composite merges across a Clear or DrawListBatch, every
\* CompositeBatch holds a job, the jobs of an item were pushed with its operation,
\* and the target holds as many jobs as push_composite was called.
C32_PushCompositeBatches == [][PushRule]_vars /\ []PushInvariant

\* A target where a filter was pushed twice into one item, then again after a
\* Clear into a new one, and a blend mode pushed twice into two items.
C32_Witness ==
    /\ is_some(pushed)
    /\ Len(PushedItems) >= 3
    /\ \E i \in 1..Len(PushedItems) :
          /\ PushedItems[i].kind = "CompositeBatch"
          /\ Len(PushedItems[i].info.jobs) = 2
          /\ i + 2 <= Len(PushedItems)
          /\ PushedItems[i + 1].kind = "Clear"
          /\ PushedItems[i + 2].kind = "CompositeBatch"
          /\ PushedItems[i + 2].info.operation = PushedItems[i].info.operation

\* A blend mode pushed twice running makes two items of one job each.
C32_WitnessFramebuffer ==
    /\ is_some(pushed)
    /\ \E i \in 1..(Len(PushedItems) - 1) :
          /\ PushedItems[i].kind = "CompositeBatch"
          /\ PushedItems[i + 1].kind = "CompositeBatch"
          /\ needs_framebuffer(PushedItems[i].info.operation)
          /\ PushedItems[i + 1].info.operation = PushedItems[i].info.operation

\* ---------------------------------------------------------------------------
\* C33
\* ---------------------------------------------------------------------------

\* The DrawListBatch items of target t and of the targets beneath it, each with the
\* command collected for it: <<draw_list_group_id, command>>.
RECURSIVE CollectedBatches(_, _)
CollectedBatches(layer, t) ==
    {<<targets[t].items[i].draw_list_group_id, layer.commands[i]>> :
        i \in {k \in 1..Len(targets[t].items) : targets[t].items[k].kind = "DrawListBatch"}}
    \cup UNION {CollectedBatches(layer.child_layers[k], targets[t].children[k]) :
                   k \in 1..Len(targets[t].children)}

\* The additions made to group g, in the order made.
AddedTo(g) == SelectSeq(add_log, LAMBDA e : e.draw_list_group_id = g)

\* The stacking-context info under which addition e was made.
InfoOf(e) == stacking_context_info[e.stacking_context_index + 1]

\* A frame was built and collected from the frame created last.
Collected ==
    /\ last_call.op = "build"
    /\ panic = ""
    /\ is_some(renderer_frame)
    /\ is_some(root)

\* The palettes of command b follow the additions made to group g.
PalettesFollow(g, b) ==
    LET added == AddedTo(g)
        group == draw_list_groups[g]
    IN /\ Len(b.matrix_palette) = Len(group.draw_list_ids)
       /\ Len(b.offset_palette) = Len(group.draw_list_ids)
       /\ [i \in 1..Len(added) |-> added[i].draw_list_id] = group.draw_list_ids
       /\ \A i \in 1..Len(added) :
             /\ b.matrix_palette[i] =
                    Matrix4_mul(layers[group.scroll_layer_id].world_transform,
                                InfoOf(added[i]).transform)
             /\ b.offset_palette[i] = InfoOf(added[i]).offset_from_layer

\* C33: for every DrawListBatch(g) collected, the matrix palette and the offset
\* palette have one entry per draw list of group g, in group order, and entry i is
\* computed from the info of the stacking context under which draw list i was added
\* to g, also when one draw list id is reachable from several stacking contexts.
C33_PalettesFollowContexts ==
    Collected =>
        \A p \in CollectedBatches(unwrap(renderer_frame).root, unwrap(root)) :
            PalettesFollow(p[1], p[2])

\* A draw list id added under more than one stacking context.
SharedDrawLists ==
    {add_log[i].draw_list_id : i \in 1..Len(add_log)} \cap
    {d \in DrawListIds :
        \E i, j \in 1..Len(add_log) :
            /\ add_log[i].draw_list_id = d
            /\ add_log[j].draw_list_id = d
            /\ add_log[i].stacking_context_index # add_log[j].stacking_context_index}

\* The same with the draw lists of the frame each reachable from one stacking
\* context only.
C33_PalettesOfUnsharedDrawLists ==
    (Collected /\ SharedDrawLists = {}) =>
        \A p \in CollectedBatches(unwrap(renderer_frame).root, unwrap(root)) :
            PalettesFollow(p[1], p[2])

\* A frame of unshared draw lists collected with a batch whose context lies off its
\* layer's origin and a batch whose context lies on it.
C33_Witness ==
    /\ Collected
    /\ SharedDrawLists = {}
    /\ \E p, q \in CollectedBatches(unwrap(renderer_frame).root, unwrap(root)) :
          /\ p[2].offset_palette[1] # Point2D_zero
          /\ q[2].offset_palette[1] = Point2D_zero

\* A frame collected from a scene whose draw list is shared by two contexts.
C33_WitnessShared ==
    /\ Collected
    /\ SharedDrawLists # {}
    /\ CollectedBatches(unwrap(renderer_frame).root, unwrap(root)) # {}

\* ---------------------------------------------------------------------------
\* C34
\* ---------------------------------------------------------------------------

\* The places of the DrawListBatch items that name group g: <<target, item>>.
BatchItemsOf(g) ==
    {<<t, i>> \in UNION {{<<u, k>> : k \in 1..Len(targets[u].items)} : u \in 1..Len(targets)} :
        /\ targets[t].items[i].kind = "DrawListBatch"
        /\ targets[t].items[i].draw_list_group_id = g}

\* The groups named by the DrawListBatch items of the render targets.
BatchedGroups ==
    {targets[t].items[i].draw_list_group_id :
        <<t, i>> \in {<<u, k>> \in UNION {{<<v, j>> : j \in 1..Len(targets[v].items)} :
                                          v \in 1..Len(targets)} :
                         targets[u].items[k].kind = "DrawListBatch"}}

\* Groups and DrawListBatch items correspond one to one, and every stored group is
\* complete.
GroupsMatchItems ==
    /\ is_none(current_draw_list_group)
    /\ BatchedGroups \subseteq DOMAIN draw_list_groups
    /\ \A g \in DOMAIN draw_list_groups :
          LET group == draw_list_groups[g]
          IN /\ Cardinality(BatchItemsOf(g)) = 1
             /\ \A p \in BatchItemsOf(g) : targets[p[1]].id = group.render_target_id
             /\ group.draw_list_ids # <<>>
             /\ contains_key(layers, group.scroll_layer_id)
             /\ \A i \in 1..Len(group.draw_list_ids) :
                   LET d == group.draw_list_ids[i]
                   IN /\ contains_key(draw_lists, d)
                      /\ is_some(draw_lists[d].stacking_context_index)
                      /\ unwrap(draw_lists[d].stacking_context_index)
                             < Len(stacking_context_info)

\* C34: after create returns no draw-list group is left open; every DrawListBatch
\* item of any render target names a stored group; every stored group is named by
\* exactly one DrawListBatch item, which sits in the render target whose id is the
\* group's render_target_id; every stored group is non-empty, its scroll_layer_id
\* is a key of the layer map, and each of its draw lists has a
\* stacking_context_index below the length of stacking_context_info.
C34_GroupsMatchRenderItems == AfterCreate => GroupsMatchItems

\* After a create that stored several groups over more than one render target,
\* the last of them by the flush that follows flatten.
C34_Witness ==
    /\ AfterCreate
    /\ Len(targets) >= 2
    /\ Cardinality(DOMAIN draw_list_groups) >= 3
    /\ \E t, u \in 1..Len(targets) :
          /\ t # u
          /\ \E g, h \in DOMAIN draw_list_groups :
                /\ draw_list_groups[g].render_target_id = targets[t].id
                /\ draw_list_groups[h].render_target_id = targets[u].id
    /\ \E g \in DOMAIN draw_list_groups : Len(draw_list_groups[g].draw_list_ids) >= 2

\* ---------------------------------------------------------------------------
\* C35
\* ---------------------------------------------------------------------------

\* The step is a create of a scene that has no root pipeline id.
CreatesRootless ==
    /\ last_call'.op = "create"
    /\ creates' = creates + 1
    /\ is_none(Scenes[last_call'.scene].root_pipeline_id)

\* The frame and the textures of the resource cache are as they were.
FrameKept ==
    /\ panic' = ""
    /\ layers' = layers
    /\ draw_list_groups' = draw_list_groups
    /\ stacking_context_info' = stacking_context_info
    /\ root' = root
    /\ targets' = targets
    /\ pipeline_epoch_map' = pipeline_epoch_map
    /\ root_scroll_layer_id' = root_scroll_layer_id
    /\ next_render_target_id' = next_render_target_id
    /\ next_draw_list_group_id' = next_draw_list_group_id
    /\ pending_updates' = pending_updates
    /\ allocated' = allocated
    /\ double_free' = double_free

\* C35: create on a scene that has no root pipeline id leaves the whole frame
\* unchanged: reset is not called, so layers, draw-list groups, stacking-context
\* info, the render-target tree, pipeline_epoch_map, root_scroll_layer_id, the id
\* counters and pending_updates keep the values of the frame created before, and
\* no texture is freed or allocated.
C35_RootlessCreateKeepsFrame == [][CreatesRootless => FrameKept]_vars

\* create of the scene without a root pipeline id returned on a frame that still
\* has the layers, the child render targets and their textures, and the pending
\* updates of the frame created and built before.
C35_Witness ==
    /\ last_call.op = "create"
    /\ is_none(CreatedScene.root_pipeline_id)
    /\ creates = 2
    /\ layers # EmptyMap
    /\ Len(targets) >= 2
    /\ draw_list_groups # EmptyMap
    /\ allocated # {}
    /\ pending_updates # <<>>
    /\ is_some(root_scroll_layer_id)

====
